---- MODULE Spec2Model ----
(***************************************************************************)
(* The HTTP MCP gateway of mcp_server_http.py: the JSON-RPC dispatcher     *)
(* handle_mcp_request, the per-peer session store, the downstream gateway   *)
(* call_tool, and the business API of business_server.py it calls.         *)
(*                                                                         *)
(* The server is one asyncio event loop: a handler runs without            *)
(* interruption up to its only suspension point, the downstream HTTP call   *)
(* awaited inside call_tool.  A request is therefore handled in one step    *)
(* (no downstream call) or in two: the part before the await, and the part  *)
(* after the downstream call has returned or failed.  Between the two,      *)
(* any other request may be handled.                                        *)
(*                                                                         *)
(* The bridge client of mcp_client.py (MCPServerManager) and the chatbot    *)
(* built on it (ChatBot) are one asyncio task: it runs from one await to    *)
(* the next, and every await is an HTTP request to the dispatcher's host    *)
(* or a chat completion of the LLM backend.                                 *)
(***************************************************************************)
EXTENDS Integers, Sequences, FiniteSets, TLC

VARIABLES
    connected_clients,  \* mcp_server_http.py:29, the set of client ids
    client_sessions,    \* mcp_server_http.py:30, dict client id -> session
    agents,             \* business_server.py:10, the registered agent ids
    inflight,           \* the handlers suspended in a downstream call, by request number
    downstream_calls,   \* number of HTTP calls issued to the business server
    now,                \* number of requests received; also the clock read by datetime.now()
    reply,              \* the exchange completed by the last step, or NoReply
    replies,            \* per request number, how many bodies were returned for it
    seen,               \* per peer, the requests received since its session was created
    handshaken,         \* the peers an initialize request was received from
    TOOLS,              \* mcp_server_http.py:144, the list the tool registry is kept in
    mcp_manager,        \* mcp_client.py:43-47, the fields of the MCPServerManager
    chatbot,            \* mcp_client.py:267-271, the fields of the ChatBot
    task,               \* where the bridge client's coroutine is suspended, or how it ended
    main,               \* where the chatbot's coroutine is, with its local variables
    wire,               \* the POST /mcp of the bridge client awaiting its response, or NoPost
    sent,               \* the HTTP requests the bridge client sent in the current operation
    stdio               \* mcp_server.py: the stdio gateway's handler, suspended or returned

bridge == <<mcp_manager, chatbot, task, main, wire, sent>>

vars == <<connected_clients, client_sessions, agents, inflight, downstream_calls,
          now, reply, replies, seen, handshaken, TOOLS, bridge, stdio>>

(***************************************************************************)
(* Bounds of the model.                                                    *)
(***************************************************************************)
MaxRequests == 3
MaxNumber == 2
MaxOperations == 3
MaxToolCalls == 2

(***************************************************************************)
(* Python values.                                                          *)
(***************************************************************************)
None == "None"
EmptyDict == [k \in {} |-> k]
Get(d, k, dflt) == IF k \in DOMAIN d THEN d[k] ELSE dflt
Put(d, k, v) == [x \in DOMAIN d \cup {k} |-> IF x = k THEN v ELSE d[x]]
Null == [tag |-> "null"]
Object(d) == [tag |-> "object", val |-> d]
IsDict(j) == j.tag = "object"

PeerA == "10.0.0.1:40001"
PeerB == "10.0.0.2:40002"
Peers == {PeerA, PeerB}

RequestId(n) == "req-" \o ToString(n)

(***************************************************************************)
(* The tool registry.                                                      *)
(***************************************************************************)
Property(type, description) == [type |-> type, description |-> description]

InputSchema(properties, required) ==
    [type |-> "object", properties |-> properties, required |-> required]

\* the list TOOLS is assigned when the module is loaded
ToolCatalog ==
    << [name |-> "register_agent",
        description |-> "Register a new agent with the business server",
        inputSchema |-> InputSchema(
            [name |-> Property("string", "Name of the agent to register"),
             version |-> Property("string", "Version of the agent")],
            <<"name", "version">>)],
       [name |-> "report_status",
        description |-> "Report agent status to the business server",
        inputSchema |-> InputSchema(
            [agent_id |-> Property("string", "ID of the agent reporting status"),
             status |-> Property("string", "Current status of the agent"),
             cpu_usage |-> Property("number", "CPU usage percentage (optional)"),
             memory_usage |-> Property("number", "Memory usage percentage (optional)")],
            <<"agent_id", "status">>)],
       [name |-> "get_tasks",
        description |-> "Get tasks assigned to a specific agent",
        inputSchema |-> InputSchema(
            [agent_id |-> Property("string", "ID of the agent to get tasks for")],
            <<"agent_id">>)],
       [name |-> "add_number",
        description |-> "Add 1 to a given number using the business server",
        inputSchema |-> InputSchema(
            [number |-> Property("integer", "The number to add 1 to")],
            <<"number">>)],
       [name |-> "get_joke",
        description |-> "Get a random joke from the business server",
        inputSchema |-> InputSchema([k \in {} |-> k], <<>>)] >>

ToolNames == {ToolCatalog[i].name : i \in DOMAIN ToolCatalog}

BUSINESS_SERVER_URL == "http://localhost:8000"
InternalErrorCode == -32603

(***************************************************************************)
(* business_server.py                                                      *)
(***************************************************************************)
tasks == "{task1: Update inventory/high, task2: Sync logs/medium}"

uuid4(ag) == "agent-" \o ToString(Cardinality(ag) + 1)

BusinessRegister(data, ag) ==
    LET agent_id == uuid4(ag)
    IN  [status |-> 200, json |-> [agent_id |-> agent_id], agents |-> ag \cup {agent_id}]

BusinessReportStatus(data, ag) ==
    IF data.agent_id \notin ag
    THEN [status |-> 404, json |-> [detail |-> "Agent not found"], agents |-> ag]
    ELSE [status |-> 200,
          json |-> [message |-> "Status received for agent " \o data.agent_id],
          agents |-> ag]

\* mutant: the tasks are served to any agent id
BusinessGetTasks_Open(data, ag) ==
    [status |-> 200, json |-> [tasks |-> tasks], agents |-> ag]

BusinessGetTasks(data, ag) ==
    IF data.agent_id \notin ag
    THEN [status |-> 404, json |-> [detail |-> "Agent not found"], agents |-> ag]
    ELSE [status |-> 200, json |-> [tasks |-> tasks], agents |-> ag]

\* mutant: the adder answers with the number it was given
BusinessAdder_Echo(data, ag) ==
    [status |-> 200, json |-> [result |-> data.number], agents |-> ag]

BusinessAdder(data, ag) ==
    [status |-> 200, json |-> [result |-> data.number + 1], agents |-> ag]

BusinessGetJoke(upstream_ok, ag) ==
    IF upstream_ok
    THEN [status |-> 200, json |-> [setup |-> "setup", punchline |-> "punchline"], agents |-> ag]
    ELSE [status |-> 503, json |-> [detail |-> "Could not fetch joke"], agents |-> ag]

BusinessServer(call, ag, upstream_ok) ==
    CASE call.path = "/register"      -> BusinessRegister(call.data, ag)
      [] call.path = "/report_status" -> BusinessReportStatus(call.data, ag)
      [] call.path = "/tasks"         -> BusinessGetTasks(call.data, ag)
      [] call.path = "/adder"         -> BusinessAdder(call.data, ag)
      [] call.path = "/joke"          -> BusinessGetJoke(upstream_ok, ag)

(***************************************************************************)
(* BusinessServerMCP: the HTTP call each method issues.                    *)
(***************************************************************************)
urljoin(base, path) == base \o path

register_agent(name, version) ==
    [verb |-> "POST", path |-> "/register", data |-> [name |-> name, version |-> version]]

report_status(agent_id, status, cpu_usage, memory_usage) ==
    [verb |-> "POST", path |-> "/report_status",
     data |-> [agent_id |-> agent_id, status |-> status,
               cpu_usage |-> cpu_usage, memory_usage |-> memory_usage]]

get_tasks(agent_id) ==
    [verb |-> "GET", path |-> "/tasks", data |-> [agent_id |-> agent_id]]

add_number(number) ==
    [verb |-> "POST", path |-> "/adder", data |-> [number |-> number]]

get_joke ==
    [verb |-> "GET", path |-> "/joke", data |-> EmptyDict]

\* the url of the request: client.get(url, params=params) appends the query
request_url(call) ==
    urljoin(BUSINESS_SERVER_URL, call.path)
        \o (IF call.verb = "GET" /\ "agent_id" \in DOMAIN call.data
            THEN "?agent_id=" \o call.data.agent_id ELSE "")

\* the reason phrase of the status line the business server answers with
reason_phrase(status) ==
    CASE status = 404 -> "Not Found"
      [] status = 503 -> "Service Unavailable"
      [] OTHER -> "OK"

\* mutant: the exception text carries neither the status nor the url
HTTPStatusError_Opaque(call, status) == "HTTP error"

\* str() of the httpx.HTTPStatusError raised by response.raise_for_status()
HTTPStatusError(call, status) ==
    (IF status < 500 THEN "Client error '" ELSE "Server error '")
        \o ToString(status) \o " " \o reason_phrase(status)
        \o "' for url '" \o request_url(call) \o "'"
        \o "\nFor more information check: "
        \o "https://developer.mozilla.org/en-US/docs/Web/HTTP/Status/" \o ToString(status)

\* str() of the httpx.RequestError raised when the call does not complete
RequestError == "All connection attempts failed"

(***************************************************************************)
(* call_tool, up to its await: either it returns a text at once, or it      *)
(* issues one downstream call and suspends.                                *)
(***************************************************************************)
KeyError(k) == "'" \o k \o "'"
ErrorExecuting(name, cause) == <<"Error executing ", name, ": ", cause>>
UnknownTool(name) == <<"Unknown tool: ", name>>
Returns(text) == [kind |-> "return", text |-> text]
Awaits(call) == [kind |-> "await", call |-> call]

\* mutant: an unregistered name falls through to the last registered branch
UnknownToolResult_Fallback(name) == Awaits(get_joke)

UnknownToolResult(name) == Returns(UnknownTool(name))

\* mutant: a missing argument is looked up with dict.get and sent downstream as None
call_tool_Lenient(name, arguments) ==
    IF name = "register_agent" THEN
        Awaits(register_agent(Get(arguments, "name", None), Get(arguments, "version", None)))
    ELSE IF name = "report_status" THEN
        Awaits(report_status(Get(arguments, "agent_id", None), Get(arguments, "status", None),
                             Get(arguments, "cpu_usage", None),
                             Get(arguments, "memory_usage", None)))
    ELSE IF name = "get_tasks" THEN Awaits(get_tasks(Get(arguments, "agent_id", None)))
    ELSE IF name = "add_number" THEN Awaits(add_number(Get(arguments, "number", 0)))
    ELSE IF name = "get_joke" THEN Awaits(get_joke)
    ELSE UnknownToolResult(name)

call_tool(name, arguments) ==
    IF name = "register_agent" THEN
        IF "name" \notin DOMAIN arguments THEN Returns(ErrorExecuting(name, KeyError("name")))
        ELSE IF "version" \notin DOMAIN arguments
             THEN Returns(ErrorExecuting(name, KeyError("version")))
        ELSE Awaits(register_agent(arguments.name, arguments.version))
    ELSE IF name = "report_status" THEN
        IF "agent_id" \notin DOMAIN arguments
        THEN Returns(ErrorExecuting(name, KeyError("agent_id")))
        ELSE IF "status" \notin DOMAIN arguments
             THEN Returns(ErrorExecuting(name, KeyError("status")))
        ELSE Awaits(report_status(arguments.agent_id, arguments.status,
                                  Get(arguments, "cpu_usage", None),
                                  Get(arguments, "memory_usage", None)))
    ELSE IF name = "get_tasks" THEN
        IF "agent_id" \notin DOMAIN arguments
        THEN Returns(ErrorExecuting(name, KeyError("agent_id")))
        ELSE Awaits(get_tasks(arguments.agent_id))
    ELSE IF name = "add_number" THEN
        IF "number" \notin DOMAIN arguments
        THEN Returns(ErrorExecuting(name, KeyError("number")))
        ELSE Awaits(add_number(arguments.number))
    ELSE IF name = "get_joke" THEN
        Awaits(get_joke)
    ELSE UnknownToolResult(name)

(***************************************************************************)
(* call_tool, after its await.  response is [kind |-> "RequestError"] or   *)
(* [kind |-> "response", status, json].                                    *)
(***************************************************************************)
FormatResult(name, arguments, json) ==
    CASE name = "register_agent" ->
            <<"Agent registered successfully. Agent ID: ", Get(json, "agent_id", None)>>
      [] name = "report_status" ->
            <<"Status reported successfully: ", Get(json, "message", None)>>
      [] name = "get_tasks" ->
            <<"Tasks for agent ", arguments.agent_id, ":\n", Get(json, "tasks", "{}")>>
      [] name = "add_number" ->
            <<"Result: ", ToString(arguments.number), " + 1 = ",
              IF "result" \in DOMAIN json THEN ToString(json.result) ELSE None>>
      [] name = "get_joke" ->
            <<"Here's a joke for you:\n\nSetup: ", Get(json, "setup", ""),
              "\nPunchline: ", Get(json, "punchline", "")>>

\* mutant: the status of the response is not looked at (no raise_for_status)
call_tool_resume_StatusIgnored(name, arguments, call, response) ==
    IF response.kind = "RequestError" THEN ErrorExecuting(name, RequestError)
    ELSE FormatResult(name, arguments, response.json)

call_tool_resume(name, arguments, call, response) ==
    IF response.kind = "RequestError" THEN ErrorExecuting(name, RequestError)
    ELSE IF response.status >= 400
         THEN ErrorExecuting(name, HTTPStatusError(call, response.status))
    ELSE FormatResult(name, arguments, response.json)

(***************************************************************************)
(* mcp_server.py, the stdio gateway.  Its BusinessServerMCP issues the     *)
(* downstream calls; handle_list_tools and handle_call_tool are the        *)
(* handlers registered with the MCP Server object.                         *)
(***************************************************************************)
mcp_server_register_agent(name, version) ==
    [verb |-> "POST", path |-> "/register", data |-> [name |-> name, version |-> version]]

mcp_server_report_status(agent_id, status, cpu_usage, memory_usage) ==
    [verb |-> "POST", path |-> "/report_status",
     data |-> [agent_id |-> agent_id, status |-> status,
               cpu_usage |-> cpu_usage, memory_usage |-> memory_usage]]

mcp_server_get_tasks(agent_id) ==
    [verb |-> "GET", path |-> "/tasks", data |-> [agent_id |-> agent_id]]

mcp_server_add_number(number) ==
    [verb |-> "POST", path |-> "/adder", data |-> [number |-> number]]

mcp_server_get_joke ==
    [verb |-> "GET", path |-> "/joke", data |-> EmptyDict]

\* mcp.types.Tool and mcp.types.TextContent, with the fields the handlers set
mcp_Tool(name, description, inputSchema) ==
    [name |-> name, description |-> description, inputSchema |-> inputSchema]

TextContent(type, text) == [type |-> type, text |-> text]

handle_list_tools ==
    << mcp_Tool("register_agent", "Register a new agent with the business server",
           [type |-> "object",
            properties |->
                [name |-> [type |-> "string",
                           description |-> "Name of the agent to register"],
                 version |-> [type |-> "string",
                              description |-> "Version of the agent"]],
            required |-> <<"name", "version">>]),
       mcp_Tool("report_status", "Report agent status to the business server",
           [type |-> "object",
            properties |->
                [agent_id |-> [type |-> "string",
                               description |-> "ID of the agent reporting status"],
                 status |-> [type |-> "string",
                             description |-> "Current status of the agent"],
                 cpu_usage |-> [type |-> "number",
                                description |-> "CPU usage percentage (optional)"],
                 memory_usage |-> [type |-> "number",
                                   description |-> "Memory usage percentage (optional)"]],
            required |-> <<"agent_id", "status">>]),
       mcp_Tool("get_tasks", "Get tasks assigned to a specific agent",
           [type |-> "object",
            properties |->
                [agent_id |-> [type |-> "string",
                               description |-> "ID of the agent to get tasks for"]],
            required |-> <<"agent_id">>]),
       mcp_Tool("add_number", "Add 1 to a given number using the business server",
           [type |-> "object",
            properties |->
                [number |-> [type |-> "integer",
                             description |-> "The number to add 1 to"]],
            required |-> <<"number">>]),
       mcp_Tool("get_joke", "Get a random joke from the business server",
           [type |-> "object", properties |-> EmptyDict, required |-> <<>>]) >>

\* the except clause of handle_call_tool
handle_call_tool_except(name, e) ==
    <<TextContent("text", <<"Error executing ", name, ": ", e>>)>>

\* handle_call_tool up to its await: the list it returns at once, or the
\* downstream call it suspends in
handle_call_tool(name, arguments) ==
    IF name = "register_agent" THEN
        IF "name" \notin DOMAIN arguments
        THEN Returns(handle_call_tool_except(name, KeyError("name")))
        ELSE IF "version" \notin DOMAIN arguments
             THEN Returns(handle_call_tool_except(name, KeyError("version")))
        ELSE Awaits(mcp_server_register_agent(arguments.name, arguments.version))
    ELSE IF name = "report_status" THEN
        IF "agent_id" \notin DOMAIN arguments
        THEN Returns(handle_call_tool_except(name, KeyError("agent_id")))
        ELSE IF "status" \notin DOMAIN arguments
             THEN Returns(handle_call_tool_except(name, KeyError("status")))
        ELSE Awaits(mcp_server_report_status(arguments.agent_id, arguments.status,
                                             Get(arguments, "cpu_usage", None),
                                             Get(arguments, "memory_usage", None)))
    ELSE IF name = "get_tasks" THEN
        IF "agent_id" \notin DOMAIN arguments
        THEN Returns(handle_call_tool_except(name, KeyError("agent_id")))
        ELSE Awaits(mcp_server_get_tasks(arguments.agent_id))
    ELSE IF name = "add_number" THEN
        IF "number" \notin DOMAIN arguments
        THEN Returns(handle_call_tool_except(name, KeyError("number")))
        ELSE Awaits(mcp_server_add_number(arguments.number))
    ELSE IF name = "get_joke" THEN
        Awaits(mcp_server_get_joke)
    ELSE Returns(<<TextContent("text", <<"Unknown tool: ", name>>)>>)

\* the text of the TextContent a branch of handle_call_tool returns
handle_call_tool_text(name, arguments, result) ==
    CASE name = "register_agent" ->
            <<"Agent registered successfully. Agent ID: ", Get(result, "agent_id", None)>>
      [] name = "report_status" ->
            <<"Status reported successfully: ", Get(result, "message", None)>>
      [] name = "get_tasks" ->
            <<"Tasks for agent ", arguments.agent_id, ":\n", Get(result, "tasks", "{}")>>
      [] name = "add_number" ->
            <<"Result: ", ToString(arguments.number), " + 1 = ",
              IF "result" \in DOMAIN result THEN ToString(result.result) ELSE None>>
      [] name = "get_joke" ->
            <<"Here's a joke for you:\n\nSetup: ", Get(result, "setup", ""),
              "\nPunchline: ", Get(result, "punchline", "")>>

\* mutant: a downstream failure is reported without its cause
handle_call_tool_resume_NoCause(name, arguments, call, response) ==
    IF response.kind = "RequestError" \/ response.status >= 400
    THEN <<TextContent("text", <<"Error executing ", name>>)>>
    ELSE <<TextContent("text", handle_call_tool_text(name, arguments, response.json))>>

\* handle_call_tool after its await: response is what the downstream call
\* came back with, as for call_tool_resume
handle_call_tool_resume(name, arguments, call, response) ==
    IF response.kind = "RequestError" THEN handle_call_tool_except(name, RequestError)
    ELSE IF response.status >= 400
         THEN handle_call_tool_except(name, HTTPStatusError(call, response.status))
    ELSE <<TextContent("text", handle_call_tool_text(name, arguments, response.json))>>

\* the stdio gateway has handled `handled` requests and is reading the next
StdioReading(handled) == [pc |-> "idle", handled |-> handled]

(***************************************************************************)
(* handle_mcp_request: the response bodies.                                *)
(***************************************************************************)
ResultBody(request_id, result) ==
    [jsonrpc |-> "2.0", id |-> request_id, result |-> result]

\* mutant: the error path does not echo the id of the request
ErrorBody_NullId(request_data, cause) ==
    [jsonrpc |-> "2.0", id |-> None,
     error |-> [code |-> InternalErrorCode, message |-> "Internal error", data |-> cause]]

\* mutant: an unroutable method is reported as JSON-RPC "method not found"
ErrorBody_MethodNotFound(request_data, cause) ==
    [jsonrpc |-> "2.0", id |-> Get(request_data, "id", None),
     error |-> [code |-> 0 - 32601, message |-> "Method not found", data |-> cause]]

\* mutant: the error path also returns an empty result
ErrorBody_WithResult(request_data, cause) ==
    [jsonrpc |-> "2.0", id |-> Get(request_data, "id", None), result |-> EmptyDict,
     error |-> [code |-> InternalErrorCode, message |-> "Internal error", data |-> cause]]

ErrorBody(request_data, cause) ==
    [jsonrpc |-> "2.0", id |-> Get(request_data, "id", None),
     error |-> [code |-> InternalErrorCode, message |-> "Internal error", data |-> cause]]

NotificationBody == [jsonrpc |-> "2.0"]

InitializeResult ==
    [protocolVersion |-> "2024-11-05",
     capabilities |-> [tools |-> [listChanged |-> FALSE]],
     serverInfo |-> [name |-> "business-server-mcp", version |-> "1.0.0"]]

\* mutant: only the tools that take arguments are listed
ToolsListResult_Filtered ==
    [tools |-> SelectSeq(TOOLS, LAMBDA tool : tool.inputSchema.required # <<>>)]

ToolsListResult == [tools |-> TOOLS]

ToolCallResult(text) == [content |-> << [type |-> "text", text |-> text] >>]

\* str() of the exceptions the handler's except clause turns into an error body
AttributeError == "'NoneType' object has no attribute 'get'"
HTTPException(method) == "400: Unknown method: " \o method

(***************************************************************************)
(* handle_mcp_request: the session store.                                  *)
(***************************************************************************)
NewSession(t) == [connected_at |-> t, requests_count |-> 0, tools_called |-> <<>>]

\* mutant: every initialize starts the session afresh
TrackConnection_Reset(clients, sessions, client_id, t) ==
    [clients |-> clients \cup {client_id},
     sessions |-> Put(sessions, client_id, NewSession(t))]

\* mutant: a repeated initialize stamps the session with the new connection time
TrackConnection_Stamp(clients, sessions, client_id, t) ==
    IF client_id \notin clients
    THEN [clients |-> clients \cup {client_id},
          sessions |-> Put(sessions, client_id, NewSession(t))]
    ELSE [clients |-> clients,
          sessions |-> [sessions EXCEPT ![client_id].connected_at = t]]

\* mutant: the peer is counted as connected, its session is not stored
TrackConnection_NoSession(clients, sessions, client_id, t) ==
    IF client_id \notin clients
    THEN [clients |-> clients \cup {client_id}, sessions |-> sessions]
    ELSE [clients |-> clients, sessions |-> sessions]

TrackConnection(clients, sessions, client_id, t) ==
    IF client_id \notin clients
    THEN [clients |-> clients \cup {client_id},
          sessions |-> Put(sessions, client_id, NewSession(t))]
    ELSE [clients |-> clients, sessions |-> sessions]

IncrementRequests(sessions, client_id) ==
    [sessions EXCEPT ![client_id].requests_count = @ + 1]

\* mutant: the record keeps the tool name but not the arguments of the call
ToolRecord_NoArguments(tool_name, arguments, t) ==
    [tool_name |-> tool_name, arguments |-> EmptyDict, timestamp |-> t]

ToolRecord(tool_name, arguments, t) ==
    [tool_name |-> tool_name, arguments |-> arguments, timestamp |-> t]

\* mutant: every session holds the same tools_called list
TrackToolUsage_Shared(sessions, client_id, tool_name, arguments, t) ==
    IF client_id \in DOMAIN sessions
    THEN [q \in DOMAIN sessions |->
             [connected_at |-> sessions[q].connected_at,
              requests_count |-> sessions[q].requests_count + (IF q = client_id THEN 1 ELSE 0),
              tools_called |-> Append(sessions[q].tools_called,
                                      ToolRecord(tool_name, arguments, t))]]
    ELSE sessions

\* mutant: the counter is written back from a value read before an earlier
\* call of the same peer was suspended
TrackToolUsage_LostUpdate(sessions, client_id, tool_name, arguments, t) ==
    IF client_id \in DOMAIN sessions
    THEN [sessions EXCEPT ![client_id].requests_count =
                              IF \E n \in DOMAIN inflight : inflight[n].client_id = client_id
                              THEN @ ELSE @ + 1,
                          ![client_id].tools_called =
                              Append(@, ToolRecord(tool_name, arguments, t))]
    ELSE sessions

\* mutant: a tools/call from a peer without a session creates one
TrackToolUsage_AutoCreate(sessions, client_id, tool_name, arguments, t) ==
    LET base == IF client_id \in DOMAIN sessions THEN sessions
                ELSE Put(sessions, client_id, NewSession(t))
    IN  [base EXCEPT ![client_id].requests_count = @ + 1,
                     ![client_id].tools_called =
                         Append(@, ToolRecord(tool_name, arguments, t))]

\* mutant: the history is a ring buffer holding the latest record only
TrackToolUsage_Capped(sessions, client_id, tool_name, arguments, t) ==
    IF client_id \in DOMAIN sessions
    THEN [sessions EXCEPT ![client_id].requests_count = @ + 1,
                          ![client_id].tools_called =
                              <<ToolRecord(tool_name, arguments, t)>>]
    ELSE sessions

\* mutant: only the calls that name a registered tool are recorded
TrackToolUsage_KnownOnly(sessions, client_id, tool_name, arguments, t) ==
    IF client_id \in DOMAIN sessions /\ tool_name \in ToolNames
    THEN [sessions EXCEPT ![client_id].requests_count = @ + 1,
                          ![client_id].tools_called =
                              Append(@, ToolRecord(tool_name, arguments, t))]
    ELSE sessions

\* mutant: the call is recorded in the history but not counted
TrackToolUsage_Uncounted(sessions, client_id, tool_name, arguments, t) ==
    IF client_id \in DOMAIN sessions
    THEN [sessions EXCEPT ![client_id].tools_called =
                              Append(@, ToolRecord(tool_name, arguments, t))]
    ELSE sessions

TrackToolUsage(sessions, client_id, tool_name, arguments, t) ==
    IF client_id \in DOMAIN sessions
    THEN [sessions EXCEPT ![client_id].requests_count = @ + 1,
                          ![client_id].tools_called =
                              Append(@, ToolRecord(tool_name, arguments, t))]
    ELSE sessions

(***************************************************************************)
(* The exchanges the model observes.                                       *)
(***************************************************************************)
NoReply == [n |-> 0]
NoneSeen == [counted |-> 0, calls |-> 0, malformed |-> 0]

Exchange(n, client_id, request_data, body, issued) ==
    [n |-> n, client_id |-> client_id, request_data |-> request_data,
     body |-> body, issued |-> issued]

Frame(client_id, request_data, request_id, tool_name, arguments, call) ==
    [client_id |-> client_id, request_data |-> request_data, request_id |-> request_id,
     tool_name |-> tool_name, arguments |-> arguments, call |-> call]

Remove(d, k) == [x \in DOMAIN d \ {k} |-> d[x]]

\* no POST /mcp of the bridge client is awaiting its response
NoPost == [n |-> 0]

\* The requests of peers are read while the bound lasts; the bridge client
\* sends one request at a time, and its outstanding request is always read.
Admitted == now < MaxRequests \/ wire.n = now + 1

\* the handler returns body for request number n without having suspended
ReturnAtOnce(n, client_id, request_data, body) ==
    /\ reply' = Exchange(n, client_id, request_data, body, <<>>)
    /\ replies' = Put(replies, n, 1)
    /\ now' = n
    /\ UNCHANGED <<agents, inflight, downstream_calls, TOOLS, bridge, stdio>>

\* mutant: the downstream call is made with a blocking HTTP client
EventLoopBusy_Blocking == DOMAIN inflight # {}

\* The downstream call is awaited on an httpx.AsyncClient: a suspended handler
\* gives the event loop back, so the loop is never busy between two steps.
EventLoopBusy == FALSE

\* mutant: a gateway failure is raised to the dispatcher's except clause
ToolCallBody_RaiseOnFailure(request_data, request_id, text) ==
    IF text[1] = "Error executing "
    THEN ErrorBody(request_data, text[4])
    ELSE ResultBody(request_id, ToolCallResult(text))

\* the body of a tools/call, whatever text the gateway produced
ToolCallBody(request_data, request_id, text) ==
    ResultBody(request_id, ToolCallResult(text))

(***************************************************************************)
(* handle_mcp_request, one action per method branch.                       *)
(***************************************************************************)
Initialize(client_id, request_data) ==
    /\ Admitted
    /\ ~EventLoopBusy
    /\ Get(request_data, "method", None) = "initialize"
    /\ LET t == now + 1
           params == Get(request_data, "params", Object(EmptyDict))
           request_id == Get(request_data, "id", None)
           tracked == TrackConnection(connected_clients, client_sessions, client_id, t)
           registered == client_id \in DOMAIN tracked.sessions
           client_info == IF IsDict(params)
                          THEN Get(params.val, "clientInfo", Object(EmptyDict))
                          ELSE Null
           body == IF ~registered THEN ErrorBody(request_data, KeyError(client_id))
                   ELSE IF ~IsDict(params) \/ ~IsDict(client_info)
                        THEN ErrorBody(request_data, AttributeError)
                   ELSE ResultBody(request_id, InitializeResult)
       IN  /\ connected_clients' = tracked.clients
           /\ client_sessions' = IF registered
                                 THEN IncrementRequests(tracked.sessions, client_id)
                                 ELSE tracked.sessions
           /\ seen' = [seen EXCEPT ![client_id] =
                          IF ~registered THEN @
                          ELSE IF client_id \in DOMAIN client_sessions
                               THEN [@ EXCEPT !.counted = @ + 1]
                          ELSE [NoneSeen EXCEPT !.counted = 1]]
           /\ handshaken' = handshaken \cup {client_id}
           /\ ReturnAtOnce(t, client_id, request_data, body)

\* mutant: the notification is counted like the other requests of the session
NotificationsInitialized_Counted(client_id, request_data) ==
    /\ Admitted
    /\ ~EventLoopBusy
    /\ Get(request_data, "method", None) = "notifications/initialized"
    /\ client_sessions' = IF client_id \in DOMAIN client_sessions
                          THEN IncrementRequests(client_sessions, client_id)
                          ELSE client_sessions
    /\ ReturnAtOnce(now + 1, client_id, request_data, NotificationBody)
    /\ UNCHANGED <<connected_clients, seen, handshaken>>

NotificationsInitialized(client_id, request_data) ==
    /\ Admitted
    /\ ~EventLoopBusy
    /\ Get(request_data, "method", None) = "notifications/initialized"
    /\ ReturnAtOnce(now + 1, client_id, request_data, NotificationBody)
    /\ UNCHANGED <<connected_clients, client_sessions, seen, handshaken>>

\* mutant: a peer that has not sent initialize is refused
ToolsList_Gated(client_id, request_data) ==
    /\ Admitted
    /\ ~EventLoopBusy
    /\ Get(request_data, "method", None) = "tools/list"
    /\ LET request_id == Get(request_data, "id", None)
           tracked == client_id \in DOMAIN client_sessions
       IN  /\ client_sessions' = IF tracked
                                 THEN IncrementRequests(client_sessions, client_id)
                                 ELSE client_sessions
           /\ seen' = IF tracked
                      THEN [seen EXCEPT ![client_id].counted = @ + 1]
                      ELSE seen
           /\ ReturnAtOnce(now + 1, client_id, request_data,
                           IF tracked THEN ResultBody(request_id, ToolsListResult)
                           ELSE ErrorBody(request_data, "Not initialized"))
    /\ UNCHANGED <<connected_clients, handshaken>>

ToolsList(client_id, request_data) ==
    /\ Admitted
    /\ ~EventLoopBusy
    /\ Get(request_data, "method", None) = "tools/list"
    /\ LET request_id == Get(request_data, "id", None)
           tracked == client_id \in DOMAIN client_sessions
       IN  /\ client_sessions' = IF tracked
                                 THEN IncrementRequests(client_sessions, client_id)
                                 ELSE client_sessions
           /\ seen' = IF tracked
                      THEN [seen EXCEPT ![client_id].counted = @ + 1]
                      ELSE seen
           /\ ReturnAtOnce(now + 1, client_id, request_data,
                           ResultBody(request_id, ToolsListResult))
    /\ UNCHANGED <<connected_clients, handshaken>>

ToolsCall(client_id, request_data) ==
    /\ Admitted
    /\ ~EventLoopBusy
    /\ Get(request_data, "method", None) = "tools/call"
    /\ LET t == now + 1
           params == Get(request_data, "params", Object(EmptyDict))
           request_id == Get(request_data, "id", None)
           tracked == client_id \in DOMAIN client_sessions
       IN  IF ~IsDict(params)
           THEN /\ ReturnAtOnce(t, client_id, request_data,
                                ErrorBody(request_data, AttributeError))
                /\ seen' = IF tracked
                           THEN [seen EXCEPT ![client_id].malformed = @ + 1]
                           ELSE seen
                /\ UNCHANGED client_sessions
           ELSE LET tool_name == Get(params.val, "name", None)
                    arguments == Get(params.val, "arguments", EmptyDict)
                    result == call_tool(tool_name, arguments)
                IN  /\ client_sessions' =
                           TrackToolUsage(client_sessions, client_id, tool_name, arguments, t)
                    /\ seen' = IF tracked
                               THEN [seen EXCEPT ![client_id].counted = @ + 1,
                                                 ![client_id].calls = @ + 1]
                               ELSE seen
                    /\ IF result.kind = "return"
                       THEN ReturnAtOnce(t, client_id, request_data,
                                         ToolCallBody(request_data, request_id, result.text))
                       ELSE /\ inflight' = Put(inflight, t,
                                    Frame(client_id, request_data, request_id,
                                          tool_name, arguments, result.call))
                            /\ downstream_calls' = downstream_calls + 1
                            /\ reply' = NoReply
                            /\ replies' = Put(replies, t, 0)
                            /\ now' = t
                            /\ UNCHANGED <<agents, TOOLS, bridge, stdio>>
    /\ UNCHANGED <<connected_clients, handshaken>>

UnknownMethod(client_id, request_data) ==
    /\ Admitted
    /\ ~EventLoopBusy
    /\ Get(request_data, "method", None) \notin
           {"initialize", "notifications/initialized", "tools/list", "tools/call"}
    /\ ReturnAtOnce(now + 1, client_id, request_data,
                    ErrorBody(request_data, HTTPException(Get(request_data, "method", None))))
    /\ UNCHANGED <<connected_clients, client_sessions, seen, handshaken>>

(***************************************************************************)
(* The downstream call of request n returns or fails, and its handler      *)
(* resumes: call_tool formats the text and handle_mcp_request returns.     *)
(***************************************************************************)
\* mutant: a downstream call that did not complete is issued again
DownstreamReturns_Retry(n, delivered, upstream_ok) ==
    /\ n \in DOMAIN inflight
    /\ IF ~delivered
       THEN /\ downstream_calls' = downstream_calls + 1
            /\ reply' = NoReply
            /\ UNCHANGED <<agents, replies, inflight>>
       ELSE LET f == inflight[n]
                served == BusinessServer(f.call, agents, upstream_ok)
                response == [kind |-> "response", status |-> served.status,
                             json |-> served.json]
                text == call_tool_resume(f.tool_name, f.arguments, f.call, response)
            IN  /\ agents' = served.agents
                /\ reply' = Put(Exchange(n, f.client_id, f.request_data,
                                         ToolCallBody(f.request_data, f.request_id, text),
                                         <<f.call>>),
                                "response", response)
                /\ replies' = [replies EXCEPT ![n] = @ + 1]
                /\ inflight' = Remove(inflight, n)
                /\ UNCHANGED downstream_calls
    /\ UNCHANGED <<connected_clients, client_sessions, now, seen, handshaken, TOOLS,
                   bridge, stdio>>

DownstreamReturns(n, delivered, upstream_ok) ==
    /\ n \in DOMAIN inflight
    /\ LET f == inflight[n]
           served == BusinessServer(f.call, agents, upstream_ok)
           response == IF delivered
                       THEN [kind |-> "response", status |-> served.status,
                             json |-> served.json]
                       ELSE [kind |-> "RequestError"]
           text == call_tool_resume(f.tool_name, f.arguments, f.call, response)
       IN  /\ agents' = IF delivered THEN served.agents ELSE agents
           /\ reply' = Put(Exchange(n, f.client_id, f.request_data,
                                    ToolCallBody(f.request_data, f.request_id, text),
                                    <<f.call>>),
                           "response", response)
           /\ replies' = [replies EXCEPT ![n] = @ + 1]
    /\ inflight' = Remove(inflight, n)
    /\ UNCHANGED <<connected_clients, client_sessions, downstream_calls, now, seen,
                   handshaken, TOOLS, bridge, stdio>>

(***************************************************************************)
(* MCPServerManager, the bridge client.  Its coroutine is suspended in one *)
(* HTTP request at a time: task.pc names the request it awaits.            *)
(***************************************************************************)
BridgePeer == PeerA

MCPServerManager_init == [client |-> None, tools |-> <<>>]

\* the states of an httpx.AsyncClient
Open == "open"
Closed == "closed"

Tool(name, description, input_schema) ==
    [name |-> name, description |-> description, input_schema |-> input_schema]

\* the coroutine positions
Idle == [pc |-> "idle"]
Awaiting(op, pc) == [pc |-> pc, op |-> op]
Returned(op) == [pc |-> "done", op |-> op, outcome |-> "return"]
ReturnedValue(op, value) == Put(Returned(op), "value", value)
Raised(op, exception, message) ==
    [pc |-> "done", op |-> op, outcome |-> "raise", exception |-> exception,
     value |-> message]

\* the HTTP requests of the bridge client
HealthProbe == [verb |-> "GET", path |-> "/health"]
Post(request_data) == [verb |-> "POST", path |-> "/mcp", json |-> request_data]

init_request ==
    [jsonrpc |-> "2.0", id |-> 1, method |-> "initialize",
     params |-> Object([protocolVersion |-> "2024-11-05",
                        capabilities |-> Object([tools |-> Object(EmptyDict)]),
                        clientInfo |-> Object([name |-> "mcp-client",
                                               version |-> "1.0.0"])])]

initialized_notification == [jsonrpc |-> "2.0", method |-> "notifications/initialized"]

tools_request == [jsonrpc |-> "2.0", id |-> 2, method |-> "tools/list"]

tool_request(tool_name, arguments) ==
    [jsonrpc |-> "2.0", id |-> 3, method |-> "tools/call",
     params |-> Object([name |-> tool_name, arguments |-> arguments])]

CannotConnect ==
    <<"Cannot connect to MCP server at ", "localhost", ":", "3000",
      ". Make sure it's running.">>
NotConnected == <<"Not connected to MCP server">>
NoResponseFromTool == <<"No response from tool">>

\* client.post(.../mcp, json=request): the request is on the wire
post(request, log) ==
    /\ wire' = [n |-> now + 1, request_data |-> request]
    /\ sent' = Append(log, Post(request))

\* What the awaited post can give back: the body the dispatcher returned for
\* this request, or nothing.  The connection fails before the dispatcher has
\* read the request, or the response is lost on its way back.
Responses ==
    IF wire = NoPost THEN {}
    ELSE (IF reply.n = wire.n THEN {Object(reply.body)} ELSE {})
             \cup (IF wire.n \notin DOMAIN inflight THEN {Null} ELSE {})

\* what the health probe can give back
HealthOutcomes ==
    { [kind |-> "response", status_code |-> 200],
      [kind |-> "response", status_code |-> 503],
      [kind |-> "ConnectError"],
      [kind |-> "ConnectTimeout"] }

\* connect_to_server up to its first await, the health probe
connect_to_server(log) ==
    /\ mcp_manager' = [mcp_manager EXCEPT !.client = Open]
    /\ task' = Awaiting("connect_to_server", "health")
    /\ sent' = Append(log, HealthProbe)
    /\ wire' = NoPost

\* mutant: the handshake is skipped, the catalog is asked for at once
HealthReturns_NoHandshake(outcome) ==
    /\ task.pc = "health"
    /\ IF outcome.kind = "ConnectError"
       THEN /\ task' = Raised("connect_to_server", "Exception", CannotConnect)
            /\ UNCHANGED <<wire, sent>>
       ELSE /\ task' = Awaiting("connect_to_server", "tools/list")
            /\ post(tools_request, sent)
    /\ UNCHANGED mcp_manager

\* _check_server_health after its await, then _initialize_server up to its await
HealthReturns(outcome) ==
    /\ task.pc = "health"
    /\ IF outcome.kind = "ConnectError"
       THEN /\ task' = Raised("connect_to_server", "Exception", CannotConnect)
            /\ UNCHANGED <<wire, sent>>
       ELSE /\ task' = Awaiting("connect_to_server", "initialize")
            /\ post(init_request, sent)
    /\ UNCHANGED mcp_manager

\* _initialize_server between its two awaits: the response is not looked at
InitializeReturns(response) ==
    /\ task.pc = "initialize"
    /\ task' = Awaiting("connect_to_server", "notifications/initialized")
    /\ post(initialized_notification, sent)
    /\ UNCHANGED mcp_manager

\* _send_notification after its await, then _get_tools up to its await
NotificationReturns(response) ==
    /\ task.pc = "notifications/initialized"
    /\ task' = Awaiting("connect_to_server", "tools/list")
    /\ post(tools_request, sent)
    /\ UNCHANGED mcp_manager

\* _get_tools after its await; connect_to_server returns
ToolsListReturns(response) ==
    /\ task.pc = "tools/list"
    /\ mcp_manager' =
           IF /\ IsDict(response)
              /\ "result" \in DOMAIN response.val
              /\ "tools" \in DOMAIN response.val.result
           THEN [mcp_manager EXCEPT !.tools =
                    [i \in 1..Len(response.val.result.tools) |->
                        Tool(response.val.result.tools[i].name,
                             response.val.result.tools[i].description,
                             response.val.result.tools[i].inputSchema)]]
           ELSE mcp_manager
    /\ task' = Returned("connect_to_server")
    /\ wire' = NoPost
    /\ UNCHANGED sent

\* call_tool up to its await: _send_request raises without a client, and
\* returns None when the client it holds has been closed
MCPServerManager_call_tool(tool_name, arguments, log) ==
    /\ IF mcp_manager.client = None
       THEN /\ task' = Raised("call_tool", "RuntimeError", NotConnected)
            /\ wire' = NoPost
            /\ sent' = log
       ELSE IF mcp_manager.client = Closed
       THEN /\ task' = ReturnedValue("call_tool", NoResponseFromTool)
            /\ wire' = NoPost
            /\ sent' = log
       ELSE /\ task' = Awaiting("call_tool", "tools/call")
            /\ post(tool_request(tool_name, arguments), log)
    /\ UNCHANGED mcp_manager

\* the text call_tool extracts from the response
call_tool_text(response) ==
    IF /\ IsDict(response)
       /\ "result" \in DOMAIN response.val
       /\ "content" \in DOMAIN response.val.result
    THEN LET content == response.val.result.content
         IN  IF Len(content) > 0 THEN content[1].text ELSE <<"[]">>
    ELSE NoResponseFromTool

\* mutant: a request that got no response is posted again
CallReturns_Retry(response) ==
    /\ task.pc = "tools/call"
    /\ IF response = Null
       THEN /\ post(wire.request_data, sent)
            /\ UNCHANGED task
       ELSE /\ task' = ReturnedValue("call_tool", call_tool_text(response))
            /\ wire' = NoPost
            /\ UNCHANGED sent
    /\ UNCHANGED mcp_manager

\* mutant: _send_request lets the transport failure propagate
CallReturns_Propagates(response) ==
    /\ task.pc = "tools/call"
    /\ task' = IF response = Null
               THEN Raised("call_tool", "ConnectError", <<RequestError>>)
               ELSE ReturnedValue("call_tool", call_tool_text(response))
    /\ wire' = NoPost
    /\ UNCHANGED <<mcp_manager, sent>>

\* call_tool after its await
CallReturns(response) ==
    /\ task.pc = "tools/call"
    /\ task' = ReturnedValue("call_tool", call_tool_text(response))
    /\ wire' = NoPost
    /\ UNCHANGED <<mcp_manager, sent>>

\* disconnect: the client, if there is one, is closed
disconnect(log) ==
    /\ mcp_manager' = IF mcp_manager.client = None THEN mcp_manager
                      ELSE [mcp_manager EXCEPT !.client = Closed]
    /\ task' = Returned("disconnect")
    /\ wire' = NoPost
    /\ sent' = log

(***************************************************************************)
(* ChatBot, the orchestration loop on top of the bridge client.            *)
(***************************************************************************)
ChatBot_init == [openrouter_client |-> None, conversation_history |-> <<>>, agent_id |-> None]

\* main() before chatbot.initialize(), with the local variables of chat():
\* calls and turns count the operations and the chat turns started,
\* completions the chat completions requested in the current turn
Main ==
    [pc |-> "main", api_key |-> None, calls |-> 0, turns |-> 0, completions |-> 0,
     tool_calls |-> <<>>, i |-> 0, tool_results |-> <<>>, returned |-> <<>>]

dispatcher == <<connected_clients, client_sessions, agents, inflight, downstream_calls,
                now, reply, replies, seen, handshaken, TOOLS>>

Message(role, content) == [role |-> role, content |-> content]

system_message ==
    Message("system",
            <<"You are a helpful assistant that can interact with a business server ",
              "through various tools. ">>)

MissingKey == <<"OPEN_ROUTER_KEY not found in environment variables">>
FollowUp == <<"Please provide a helpful response based on the tool results above.">>
JSONDecodeError == <<"Expecting value: line 1 column 1 (char 0)">>

\* json.loads of the argument texts a tool call can carry
json_loads(text) ==
    CASE text = "{}" -> Object(EmptyDict)
      [] text = "{\"number\": 42}" -> Object([number |-> 42])
      [] OTHER -> [tag |-> "JSONDecodeError"]

ToolCall(name, arguments) == [function |-> [name |-> name, arguments |-> arguments]]

\* the tool calls the LLM proposes: well-formed ones, and one whose
\* arguments are the empty text
ProposableCalls ==
    { ToolCall("get_joke", "{}"),
      ToolCall("add_number", "{\"number\": 42}"),
      ToolCall("get_joke", "") }

Proposals == UNION { [1..n -> ProposableCalls] : n \in 1..MaxToolCalls }

\* what the POST to the chat completions endpoint can give back; tool calls
\* are proposed only when tools were offered in the payload
BackendOutcomes(with_tools) ==
    { [kind |-> "response", status_code |-> 200,
       choices |-> << [message |-> [role |-> "assistant", content |-> <<"Here you go.">>]] >>],
      [kind |-> "response", status_code |-> 200, choices |-> <<>>],
      [kind |-> "response", status_code |-> 429],
      [kind |-> "RequestError"] }
        \cup (IF with_tools
              THEN { [kind |-> "response", status_code |-> 200,
                      choices |-> << [message |-> [role |-> "assistant", content |-> <<>>,
                                                   tool_calls |-> p]] >>] :
                         p \in Proposals }
              ELSE {})

\* the values chat_completion returns: a str, or the message dict
Str(text) == [type |-> "str", text |-> text]
Dict(message) == [type |-> "dict", val |-> message]
str(value) == value.text

\* OpenRouterClient.chat_completion after its await
chat_completion(outcome) ==
    IF outcome.kind = "RequestError" THEN Str(<<"Error: ", RequestError>>)
    ELSE IF outcome.status_code >= 400 THEN Str(<<"Error: ", ToString(outcome.status_code)>>)
    ELSE IF Len(outcome.choices) > 0
         THEN LET message == outcome.choices[1].message
              IN  IF "tool_calls" \in DOMAIN message /\ message.tool_calls # <<>>
                  THEN Dict(message)
                  ELSE Str(message.content)
    ELSE Str(<<"No response from LLM">>)

\* result.split("Agent ID: ")[1].strip() when "Agent ID:" is in result
AgentIdIn(result) ==
    IF Len(result) = 2 /\ result[1] = "Agent registered successfully. Agent ID: "
    THEN result[2]
    ELSE None

ToolResultLine(tool_name, tool_result) == <<"Tool '", tool_name, "' result: ">> \o tool_result

RECURSIVE Joined(_)
\* ' '.join(tool_results)
Joined(tool_results) ==
    IF tool_results = <<>> THEN <<>>
    ELSE IF Len(tool_results) = 1 THEN tool_results[1]
    ELSE tool_results[1] \o <<" ">> \o Joined(Tail(tool_results))

tool_message(tool_results) ==
    Message("assistant", <<"I used some tools to help you. ">> \o Joined(tool_results))

ErrorProcessing(cause) == <<"Error processing your request: ">> \o cause

\* ChatBot.cleanup: both HTTP clients are closed, where they exist
cleanup ==
    /\ chatbot' = IF chatbot.openrouter_client = None THEN chatbot
                  ELSE [chatbot EXCEPT !.openrouter_client = Closed]
    /\ mcp_manager' = IF mcp_manager.client = None THEN mcp_manager
                      ELSE [mcp_manager EXCEPT !.client = Closed]

\* chat() returns text to main(), which waits for the next input
ChatReturns(text) == main' = [main EXCEPT !.pc = "ready", !.returned = text]

\* mutant: the key is not looked at before the connection is made
ChatBot_initialize_KeyUnchecked(api_key) ==
    /\ main.pc = "main"
    /\ chatbot' = [chatbot EXCEPT !.openrouter_client = Open]
    /\ connect_to_server(<<>>)
    /\ main' = [main EXCEPT !.pc = "initialize", !.api_key = api_key]
    /\ UNCHANGED <<dispatcher, stdio>>

\* ChatBot.initialize up to its first await; without the key it raises and
\* main() ends through cleanup
ChatBot_initialize(api_key) ==
    /\ main.pc = "main"
    /\ IF api_key = None
       THEN /\ main' = [main EXCEPT !.pc = "exit", !.returned = MissingKey,
                                    !.api_key = api_key]
            /\ cleanup
            /\ UNCHANGED <<task, wire, sent>>
       ELSE /\ chatbot' = [chatbot EXCEPT !.openrouter_client = Open]
            /\ connect_to_server(<<>>)
            /\ main' = [main EXCEPT !.pc = "initialize", !.api_key = api_key]
    /\ UNCHANGED <<dispatcher, stdio>>

\* ChatBot.initialize after connect_to_server, up to the await in call_tool
ChatBot_connected ==
    /\ main.pc = "initialize"
    /\ task.pc = "done"
    /\ IF task.outcome = "raise"
       THEN /\ main' = [main EXCEPT !.pc = "exit", !.returned = task.value]
            /\ cleanup
            /\ task' = Idle
            /\ UNCHANGED <<wire, sent>>
       ELSE /\ MCPServerManager_call_tool("register_agent",
                                          [name |-> "ChatBot", version |-> "1.0.0"], sent)
            /\ main' = [main EXCEPT !.pc = "register"]
            /\ UNCHANGED chatbot
    /\ UNCHANGED <<dispatcher, stdio>>

\* ChatBot.initialize after the registration: the system message is appended
ChatBot_registered ==
    /\ main.pc = "register"
    /\ task.pc = "done"
    /\ chatbot' = [chatbot EXCEPT
           !.agent_id = IF task.outcome = "return" /\ AgentIdIn(task.value) # None
                        THEN AgentIdIn(task.value) ELSE @,
           !.conversation_history = Append(@, system_message)]
    /\ main' = [main EXCEPT !.pc = "ready"]
    /\ task' = Idle
    /\ UNCHANGED <<mcp_manager, wire, sent, dispatcher, stdio>>

\* ChatBot.chat up to its first await, the completion with the tools offered
ChatBot_chat(user_input) ==
    /\ main.pc = "ready"
    /\ chatbot' = [chatbot EXCEPT
           !.conversation_history = Append(@, Message("user", <<user_input>>))]
    /\ main' = [main EXCEPT !.pc = "completion", !.turns = @ + 1, !.completions = 1,
                            !.tool_calls = <<>>, !.i = 0, !.tool_results = <<>>,
                            !.returned = <<>>]
    /\ sent' = <<>>
    /\ UNCHANGED <<mcp_manager, task, wire, dispatcher, stdio>>

\* mutant: only the first proposed tool call is invoked
tool_calls_loop_FirstOnly(tool_calls, i, tool_results) ==
    IF i > Len(tool_calls) \/ i > 1
    THEN /\ chatbot' = [chatbot EXCEPT
                !.conversation_history = Append(@, tool_message(tool_results))]
         /\ main' = [main EXCEPT !.pc = "final", !.completions = @ + 1,
                                 !.tool_calls = tool_calls, !.i = i,
                                 !.tool_results = tool_results]
         /\ task' = Idle
         /\ UNCHANGED <<mcp_manager, wire, sent>>
    ELSE LET function == tool_calls[i].function
             arguments == json_loads(function.arguments)
         IN  IF ~IsDict(arguments)
             THEN /\ main' = [main EXCEPT !.pc = "ready",
                                          !.returned = ErrorProcessing(JSONDecodeError),
                                          !.tool_calls = tool_calls, !.i = i,
                                          !.tool_results = tool_results]
                  /\ task' = Idle
                  /\ UNCHANGED <<chatbot, mcp_manager, wire, sent>>
             ELSE /\ MCPServerManager_call_tool(function.name, arguments.val, sent)
                  /\ main' = [main EXCEPT !.pc = "tool", !.tool_calls = tool_calls,
                                          !.i = i, !.tool_results = tool_results]
                  /\ UNCHANGED chatbot

\* the loop over response["tool_calls"] from its i-th call on, up to the
\* next await: the call_tool of that call, or the final completion
tool_calls_loop(tool_calls, i, tool_results) ==
    IF i > Len(tool_calls)
    THEN /\ chatbot' = [chatbot EXCEPT
                !.conversation_history = Append(@, tool_message(tool_results))]
         /\ main' = [main EXCEPT !.pc = "final", !.completions = @ + 1,
                                 !.tool_calls = tool_calls, !.i = i,
                                 !.tool_results = tool_results]
         /\ task' = Idle
         /\ UNCHANGED <<mcp_manager, wire, sent>>
    ELSE LET function == tool_calls[i].function
             arguments == json_loads(function.arguments)
         IN  IF ~IsDict(arguments)
             THEN /\ main' = [main EXCEPT !.pc = "ready",
                                          !.returned = ErrorProcessing(JSONDecodeError),
                                          !.tool_calls = tool_calls, !.i = i,
                                          !.tool_results = tool_results]
                  /\ task' = Idle
                  /\ UNCHANGED <<chatbot, mcp_manager, wire, sent>>
             ELSE /\ MCPServerManager_call_tool(function.name, arguments.val, sent)
                  /\ main' = [main EXCEPT !.pc = "tool", !.tool_calls = tool_calls,
                                          !.i = i, !.tool_results = tool_results]
                  /\ UNCHANGED chatbot

\* ChatBot.chat after the first completion
ChatBot_completed(outcome) ==
    /\ main.pc = "completion"
    /\ LET response == chat_completion(outcome)
       IN  IF response.type = "dict" /\ "tool_calls" \in DOMAIN response.val
           THEN tool_calls_loop(response.val.tool_calls, 1, <<>>)
           ELSE /\ chatbot' = [chatbot EXCEPT !.conversation_history =
                                  Append(@, Message("assistant", str(response)))]
                /\ ChatReturns(str(response))
                /\ UNCHANGED <<mcp_manager, task, wire, sent>>
    /\ UNCHANGED <<dispatcher, stdio>>

\* ChatBot.chat after the call_tool of tool call i
ChatBot_tool_returned ==
    /\ main.pc = "tool"
    /\ task.pc = "done"
    /\ IF task.outcome = "raise"
       THEN /\ ChatReturns(ErrorProcessing(task.value))
            /\ task' = Idle
            /\ UNCHANGED <<chatbot, mcp_manager, wire, sent>>
       ELSE tool_calls_loop(main.tool_calls, main.i + 1,
                Append(main.tool_results,
                       ToolResultLine(main.tool_calls[main.i].function.name, task.value)))
    /\ UNCHANGED <<dispatcher, stdio>>

\* ChatBot.chat after the final completion
ChatBot_final(outcome) ==
    /\ main.pc = "final"
    /\ LET final_response == chat_completion(outcome)
       IN  /\ chatbot' = [chatbot EXCEPT !.conversation_history =
                             Append(@, Message("assistant", str(final_response)))]
           /\ ChatReturns(str(final_response))
    /\ UNCHANGED <<mcp_manager, task, wire, sent, dispatcher, stdio>>

\* the user quits: main() leaves its loop through cleanup
ChatBot_quit ==
    /\ main.pc = "ready"
    /\ main' = [main EXCEPT !.pc = "exit"]
    /\ cleanup
    /\ UNCHANGED <<task, wire, sent, dispatcher, stdio>>

(***************************************************************************)
(* The requests the model sends.                                           *)
(***************************************************************************)
InitializeParams ==
    Object([protocolVersion |-> "2024-11-05",
            clientInfo |-> Object([name |-> "mcp-client", version |-> "1.0.0"])])

CallRequest(name, arguments) ==
    [method |-> "tools/call", params |-> Object([name |-> name, arguments |-> arguments])]

MethodShapes ==
    { [method |-> "initialize", params |-> InitializeParams],
      [method |-> "initialize", params |-> Null],
      [method |-> "notifications/initialized"],
      [method |-> "tools/list"],
      [method |-> "resources/list"],
      EmptyDict,
      [method |-> "tools/call", params |-> Null] }

DispatcherShapes ==
    MethodShapes \cup
    { CallRequest("get_joke", EmptyDict),
      CallRequest("add_number", EmptyDict),
      CallRequest("delete_agent", EmptyDict) }

WithId(request_data, n) == Put(request_data, "id", RequestId(n))

Envelopes(shapes, n) == shapes \cup {WithId(s, n) : s \in shapes}

Init ==
    /\ connected_clients = {}
    /\ client_sessions = EmptyDict
    /\ agents = {}
    /\ inflight = EmptyDict
    /\ downstream_calls = 0
    /\ now = 0
    /\ reply = NoReply
    /\ replies = EmptyDict
    /\ seen = [p \in Peers |-> NoneSeen]
    /\ handshaken = {}
    /\ TOOLS = ToolCatalog
    /\ mcp_manager = MCPServerManager_init
    /\ chatbot = ChatBot_init
    /\ task = Idle
    /\ main = Main
    /\ wire = NoPost
    /\ sent = <<>>
    /\ stdio = StdioReading(0)

\* handle_mcp_request: the method decides the branch
handle_mcp_request ==
    \/ \E client_id \in Peers, request_data \in Envelopes(DispatcherShapes, now + 1) :
           Initialize(client_id, request_data)
    \/ \E client_id \in Peers, request_data \in Envelopes(DispatcherShapes, now + 1) :
           NotificationsInitialized(client_id, request_data)
    \/ \E client_id \in Peers, request_data \in Envelopes(DispatcherShapes, now + 1) :
           ToolsList(client_id, request_data)
    \/ \E client_id \in Peers, request_data \in Envelopes(DispatcherShapes, now + 1) :
           ToolsCall(client_id, request_data)
    \/ \E client_id \in Peers, request_data \in Envelopes(DispatcherShapes, now + 1) :
           UnknownMethod(client_id, request_data)

Resume ==
    \E n \in DOMAIN inflight, delivered \in BOOLEAN, upstream_ok \in BOOLEAN :
        DownstreamReturns(n, delivered, upstream_ok)

Next == handle_mcp_request \/ Resume

Spec == Init /\ [][Next]_vars

\* every downstream call returns or fails: the HTTP client has a 30 s timeout
LiveSpec ==
    /\ Spec
    /\ \A n \in 1..MaxRequests :
           WF_vars(\E delivered \in BOOLEAN, upstream_ok \in BOOLEAN :
                      DownstreamReturns(n, delivered, upstream_ok))

(***************************************************************************)
(* One peer exercising every tool of the gateway.                          *)
(***************************************************************************)
GatewayShapes ==
    { [method |-> "initialize", params |-> InitializeParams],
      [method |-> "notifications/initialized"],
      [method |-> "tools/list"],
      [method |-> "resources/list"],
      [method |-> "tools/call", params |-> Object(EmptyDict)],
      [method |-> "tools/call", params |-> Null],
      CallRequest("register_agent", [name |-> "ChatBot", version |-> "1.0.0"]),
      CallRequest("register_agent", [name |-> "ChatBot"]),
      CallRequest("report_status", [agent_id |-> "agent-1", status |-> "active"]),
      CallRequest("report_status", [status |-> "active"]),
      CallRequest("get_tasks", [agent_id |-> "agent-1"]),
      CallRequest("get_tasks", EmptyDict),
      CallRequest("add_number", [number |-> 42]),
      CallRequest("add_number", EmptyDict),
      CallRequest("get_joke", EmptyDict),
      CallRequest("delete_agent", EmptyDict) }

\* as the bridge client sends them: every request carries an id, the
\* notification carries none
GatewayEnvelopes(n) ==
    { IF Get(s, "method", None) = "notifications/initialized" THEN s ELSE WithId(s, n) :
          s \in GatewayShapes }

GatewayReceive ==
    \/ \E request_data \in GatewayEnvelopes(now + 1) : Initialize(PeerA, request_data)
    \/ \E request_data \in GatewayEnvelopes(now + 1) :
           NotificationsInitialized(PeerA, request_data)
    \/ \E request_data \in GatewayEnvelopes(now + 1) : ToolsList(PeerA, request_data)
    \/ \E request_data \in GatewayEnvelopes(now + 1) : ToolsCall(PeerA, request_data)
    \/ \E request_data \in GatewayEnvelopes(now + 1) : UnknownMethod(PeerA, request_data)

GatewayNext == GatewayReceive \/ Resume

GatewaySpec == Init /\ [][GatewayNext]_vars

(***************************************************************************)
(* One peer adding numbers, as test_mcp_http.py does: each request is sent *)
(* when the response to the previous one has been read.                    *)
(***************************************************************************)
AdderNumbers == ((0 - MaxNumber)..MaxNumber) \cup {42}

AdderReceive ==
    \/ /\ DOMAIN inflight = {}
       /\ Initialize(PeerA, WithId([method |-> "initialize", params |-> InitializeParams],
                                   now + 1))
    \/ \E number \in AdderNumbers :
           /\ DOMAIN inflight = {}
           /\ ToolsCall(PeerA, WithId(CallRequest("add_number", [number |-> number]),
                                      now + 1))

AdderNext == AdderReceive \/ Resume

AdderSpec == Init /\ [][AdderNext]_vars

(***************************************************************************)
(* The stdio gateway on its own, in front of the business server: the      *)
(* Server object reads one request at a time from stdin and calls the      *)
(* handler registered for it.                                              *)
(***************************************************************************)
StdioNames == ToolNames \cup {"delete_agent"}

StdioArguments ==
    { EmptyDict,
      [name |-> "ChatBot", version |-> "1.0.0"],
      [name |-> "ChatBot"],
      [agent_id |-> "agent-1", status |-> "active"],
      [agent_id |-> "agent-1", status |-> "active", cpu_usage |-> 50],
      [status |-> "active"],
      [agent_id |-> "agent-1"],
      [agent_id |-> "agent-9"],
      [number |-> 42] }

StdioListTools ==
    /\ stdio.pc # "await"
    /\ stdio.handled < MaxRequests
    /\ stdio' = [pc |-> "done", handled |-> stdio.handled + 1, request |-> "tools/list",
                 returned |-> handle_list_tools]
    /\ UNCHANGED <<dispatcher, bridge>>

StdioCallTool(name, arguments) ==
    /\ stdio.pc # "await"
    /\ stdio.handled < MaxRequests
    /\ LET result == handle_call_tool(name, arguments)
       IN  stdio' = IF result.kind = "return"
                    THEN [pc |-> "done", handled |-> stdio.handled + 1,
                          request |-> "tools/call", name |-> name,
                          arguments |-> arguments, awaited |-> FALSE,
                          returned |-> result.text]
                    ELSE [pc |-> "await", handled |-> stdio.handled + 1,
                          request |-> "tools/call", name |-> name,
                          arguments |-> arguments, call |-> result.call]
    /\ UNCHANGED <<dispatcher, bridge>>

StdioDownstreamReturns(delivered, upstream_ok) ==
    /\ stdio.pc = "await"
    /\ LET served == BusinessServer(stdio.call, agents, upstream_ok)
           response == IF delivered
                       THEN [kind |-> "response", status |-> served.status,
                             json |-> served.json]
                       ELSE [kind |-> "RequestError"]
       IN  /\ agents' = IF delivered THEN served.agents ELSE agents
           /\ stdio' = [pc |-> "done", handled |-> stdio.handled,
                        request |-> "tools/call", name |-> stdio.name,
                        arguments |-> stdio.arguments, awaited |-> TRUE,
                        call |-> stdio.call, response |-> response,
                        returned |-> handle_call_tool_resume(stdio.name, stdio.arguments,
                                                             stdio.call, response)]
    /\ UNCHANGED <<connected_clients, client_sessions, inflight, downstream_calls, now,
                   reply, replies, seen, handshaken, TOOLS, bridge>>

StdioNext ==
    \/ StdioListTools
    \/ \E name \in StdioNames, arguments \in StdioArguments : StdioCallTool(name, arguments)
    \/ \E delivered \in BOOLEAN, upstream_ok \in BOOLEAN :
           StdioDownstreamReturns(delivered, upstream_ok)

StdioSpec == Init /\ [][StdioNext]_vars

(***************************************************************************)
(* The bridge client used on its own: a caller starts connect_to_server,   *)
(* call_tool and disconnect in any order, each when the one before has     *)
(* ended, against the dispatcher and the business server.                  *)
(***************************************************************************)
BridgeCalls ==
    { [name |-> "get_joke", arguments |-> EmptyDict],
      [name |-> "add_number", arguments |-> [number |-> 42]],
      [name |-> "add_number", arguments |-> EmptyDict],
      [name |-> "delete_agent", arguments |-> EmptyDict] }

CallerReady == task.pc \in {"idle", "done"} /\ main.calls < MaxOperations

BridgeCaller ==
    \/ /\ CallerReady
       /\ connect_to_server(<<>>)
       /\ main' = [main EXCEPT !.calls = @ + 1]
       /\ UNCHANGED <<chatbot, dispatcher, stdio>>
    \/ \E c \in BridgeCalls :
           /\ CallerReady
           /\ MCPServerManager_call_tool(c.name, c.arguments, <<>>)
           /\ main' = [main EXCEPT !.calls = @ + 1]
           /\ UNCHANGED <<chatbot, dispatcher, stdio>>
    \/ /\ CallerReady
       /\ disconnect(<<>>)
       /\ main' = [main EXCEPT !.calls = @ + 1]
       /\ UNCHANGED <<chatbot, dispatcher, stdio>>

\* the bridge client's coroutine resumes from the request it awaits
BridgeResumes ==
    \/ \E outcome \in HealthOutcomes :
           HealthReturns(outcome) /\ UNCHANGED <<chatbot, main, dispatcher, stdio>>
    \/ \E response \in Responses :
           InitializeReturns(response) /\ UNCHANGED <<chatbot, main, dispatcher, stdio>>
    \/ \E response \in Responses :
           NotificationReturns(response) /\ UNCHANGED <<chatbot, main, dispatcher, stdio>>
    \/ \E response \in Responses :
           ToolsListReturns(response) /\ UNCHANGED <<chatbot, main, dispatcher, stdio>>
    \/ \E response \in Responses :
           CallReturns(response) /\ UNCHANGED <<chatbot, main, dispatcher, stdio>>

\* the dispatcher reads the request the bridge client has on the wire
BridgeServed ==
    \/ wire.n = now + 1 /\ Initialize(BridgePeer, wire.request_data)
    \/ wire.n = now + 1 /\ NotificationsInitialized(BridgePeer, wire.request_data)
    \/ wire.n = now + 1 /\ ToolsList(BridgePeer, wire.request_data)
    \/ wire.n = now + 1 /\ ToolsCall(BridgePeer, wire.request_data)

BridgeNext == BridgeCaller \/ BridgeResumes \/ BridgeServed \/ Resume

BridgeSpec == Init /\ [][BridgeNext]_vars

(***************************************************************************)
(* The chatbot as main() runs it: initialize, chat turns, cleanup.         *)
(***************************************************************************)
ApiKeys == {None, "sk-or-v1"}

\* what the user types at the prompt before quitting
UserInputs == <<"tell me a joke and add 1 to 42">>

ChatSteps ==
    \/ \E api_key \in ApiKeys : ChatBot_initialize(api_key)
    \/ ChatBot_connected
    \/ ChatBot_registered
    \/ \E k \in 1..Len(UserInputs) : main.turns = k - 1 /\ ChatBot_chat(UserInputs[k])
    \/ \E outcome \in BackendOutcomes(TRUE) : ChatBot_completed(outcome)
    \/ ChatBot_tool_returned
    \/ \E outcome \in BackendOutcomes(FALSE) : ChatBot_final(outcome)
    \/ ChatBot_quit

ChatNext == ChatSteps \/ BridgeResumes \/ BridgeServed \/ Resume

ChatSpec == Init /\ [][ChatNext]_vars

(***************************************************************************)
(* Reading the exchanges.                                                  *)
(***************************************************************************)
MethodOf(request_data) == Get(request_data, "method", None)
ParamsOf(request_data) == Get(request_data, "params", Object(EmptyDict))
HasId(request_data) == "id" \in DOMAIN request_data
IsResponseEnvelope(body) == "result" \in DOMAIN body \/ "error" \in DOMAIN body
Answered == reply.n # 0
TextOf(body) == body.result.content[1].text
IsToolText(body) ==
    /\ "result" \in DOMAIN body
    /\ "content" \in DOMAIN body.result
RoutedMethods == {"initialize", "notifications/initialized", "tools/list", "tools/call"}

\* the request received by this step, its client and its number
ReceivedStep == now' = now + 1
ReceivedRequest ==
    IF now' \in DOMAIN inflight' THEN inflight'[now'].request_data ELSE reply'.request_data
ReceivedClient ==
    IF now' \in DOMAIN inflight' THEN inflight'[now'].client_id ELSE reply'.client_id

\* one request handled by whichever branch its method selects
ServeOne(client_id, request_data) ==
    \/ Initialize(client_id, request_data)
    \/ NotificationsInitialized(client_id, request_data)
    \/ ToolsList(client_id, request_data)
    \/ ToolsCall(client_id, request_data)
    \/ UnknownMethod(client_id, request_data)

(***************************************************************************)
(* C1: every request that carries an id, with method initialize,           *)
(* tools/list, tools/call, unknown or missing, gets exactly one response   *)
(* envelope, with the id of the request: at once, or when its downstream   *)
(* call has returned or failed.                                            *)
(***************************************************************************)
C1_InScope(request_data) ==
    HasId(request_data) /\ MethodOf(request_data) # "notifications/initialized"

C1_AnsweredOnce ==
    /\ \A n \in 1..now : replies[n] <= 1 /\ (replies[n] = 0 <=> n \in DOMAIN inflight)
    /\ (Answered /\ C1_InScope(reply.request_data)) =>
           /\ IsResponseEnvelope(reply.body)
           /\ reply.body.id = reply.request_data.id
           /\ replies[reply.n] = 1

C1_EveryRequestAnswered ==
    /\ []C1_AnsweredOnce
    /\ \A n \in 1..MaxRequests :
           (n \in DOMAIN inflight /\ HasId(inflight[n].request_data))
               ~> (/\ reply.n = n
                   /\ IsResponseEnvelope(reply.body)
                   /\ reply.body.id = RequestId(n)
                   /\ replies[n] = 1)

C1_Witness ==
    /\ Answered
    /\ C1_InScope(reply.request_data)
    /\ Len(reply.issued) = 1
    /\ reply.body.id = reply.request_data.id
    /\ reply.n < now

(***************************************************************************)
(* C2: a tools/call whose params carry a name and an argument mapping is   *)
(* answered with a result holding one text content block and no error,     *)
(* whatever the gateway did.                                               *)
(***************************************************************************)
C2_CarriesToolCall(request_data) ==
    /\ MethodOf(request_data) = "tools/call"
    /\ IsDict(ParamsOf(request_data))
    /\ {"name", "arguments"} \subseteq DOMAIN ParamsOf(request_data).val

C2_ToolCallIsRpcSuccess ==
    (Answered /\ C2_CarriesToolCall(reply.request_data)) =>
        /\ "error" \notin DOMAIN reply.body
        /\ "result" \in DOMAIN reply.body
        /\ DOMAIN reply.body.result = {"content"}
        /\ Len(reply.body.result.content) = 1
        /\ reply.body.result.content[1].type = "text"
        /\ Len(reply.body.result.content[1].text) > 0

C2_Witness ==
    /\ Answered
    /\ C2_CarriesToolCall(reply.request_data)
    /\ Len(reply.issued) = 1
    /\ IsToolText(reply.body)
    /\ TextOf(reply.body)[1] = "Error executing "

(***************************************************************************)
(* C3: a tools/call naming no registered tool is answered at once with     *)
(* "Unknown tool: <name>", and the step issues no downstream call.         *)
(***************************************************************************)
C3_NamesUnknownTool(request_data) ==
    /\ MethodOf(request_data) = "tools/call"
    /\ IsDict(ParamsOf(request_data))
    /\ Get(ParamsOf(request_data).val, "name", None) \notin ToolNames

C3_UnknownToolNoDownstream ==
    [][(ReceivedStep /\ C3_NamesUnknownTool(ReceivedRequest)) =>
          /\ reply'.n = now'
          /\ IsToolText(reply'.body)
          /\ TextOf(reply'.body) =
                 <<"Unknown tool: ", Get(ParamsOf(ReceivedRequest).val, "name", None)>>
          /\ reply'.issued = <<>>
          /\ downstream_calls' = downstream_calls
          /\ inflight' = inflight]_vars

C3_Witness ==
    /\ Answered
    /\ C3_NamesUnknownTool(reply.request_data)
    /\ TextOf(reply.body) = <<"Unknown tool: ", "delete_agent">>
    /\ downstream_calls >= 1

(***************************************************************************)
(* C4: an envelope whose method is missing or is none of the four routed   *)
(* methods is answered with the error envelope -32603 / "Internal error",  *)
(* the cause in data and the id of the request; after it the dispatcher    *)
(* still serves every request.                                             *)
(***************************************************************************)
C4_UnroutableIsInternalError ==
    (Answered /\ MethodOf(reply.request_data) \notin RoutedMethods) =>
        /\ reply.body =
               [jsonrpc |-> "2.0",
                id |-> Get(reply.request_data, "id", None),
                error |-> [code |-> 0 - 32603,
                           message |-> "Internal error",
                           data |-> "400: Unknown method: " \o MethodOf(reply.request_data)]]
        /\ now < MaxRequests =>
               \A client_id \in Peers, request_data \in Envelopes(DispatcherShapes, now + 1) :
                   ENABLED ServeOne(client_id, request_data)

C4_Witness ==
    /\ Answered
    /\ ~("method" \in DOMAIN reply.request_data)
    /\ HasId(reply.request_data)
    /\ "error" \in DOMAIN reply.body
    /\ reply.n = 2
    /\ now < MaxRequests

(***************************************************************************)
(* C5: an envelope without an id never produces a response envelope.       *)
(***************************************************************************)
C5_NotificationUnanswered ==
    (Answered /\ ~HasId(reply.request_data)) => ~IsResponseEnvelope(reply.body)

(***************************************************************************)
(* C6: a step taken for a request of one peer leaves every other peer's    *)
(* session as it was: its presence, connected_at, requests_count and       *)
(* tools_called; so no record of one peer's call enters another's history. *)
(***************************************************************************)
StepClient == IF ReceivedStep THEN ReceivedClient ELSE reply'.client_id

SessionUnchanged(q) ==
    /\ (q \in connected_clients') = (q \in connected_clients)
    /\ (q \in DOMAIN client_sessions') = (q \in DOMAIN client_sessions)
    /\ q \in DOMAIN client_sessions => client_sessions'[q] = client_sessions[q]

C6_SessionsIsolated ==
    [][\A q \in Peers : q # StepClient => SessionUnchanged(q)]_vars

C6_Witness ==
    /\ Answered
    /\ reply.client_id = PeerA
    /\ Len(reply.issued) = 1
    /\ TextOf(reply.body)[1] = "Error executing "
    /\ {PeerA, PeerB} \subseteq DOMAIN client_sessions
    /\ Len(client_sessions[PeerA].tools_called) = 1
    /\ client_sessions[PeerB].tools_called = <<>>
    /\ client_sessions[PeerB].requests_count = 1

(***************************************************************************)
(* C7: once no request of a peer is in flight, its requests_count is the   *)
(* number of initialize, tools/list and tools/call requests received       *)
(* since its session was created, and len(tools_called) the number of      *)
(* those tools/call requests.                                              *)
(***************************************************************************)
NoneInFlightFor(p) == \A n \in DOMAIN inflight : inflight[n].client_id # p

\* as claimed: every tools/call request counts
C7_NoUpdateLost ==
    \A p \in DOMAIN client_sessions :
        NoneInFlightFor(p) =>
            /\ client_sessions[p].requests_count = seen[p].counted + seen[p].malformed
            /\ Len(client_sessions[p].tools_called) = seen[p].calls + seen[p].malformed

\* as amended: the tools/call requests whose params are a mapping count
C7_NoUpdateLostOfMappedCalls ==
    \A p \in DOMAIN client_sessions :
        NoneInFlightFor(p) =>
            /\ client_sessions[p].requests_count = seen[p].counted
            /\ Len(client_sessions[p].tools_called) = seen[p].calls

\* two tools/call requests of one peer overlapped: the earlier one finished last
C7_Witness ==
    /\ Answered
    /\ reply.n = 2
    /\ now = 3
    /\ DOMAIN inflight = {}
    /\ reply.client_id \in DOMAIN client_sessions
    /\ Len(client_sessions[reply.client_id].tools_called) = 2
    /\ client_sessions[reply.client_id].requests_count = 3

(***************************************************************************)
(* C8: while a downstream call is in flight, every request of every peer   *)
(* can be handled: it leaves the suspended handlers as they are, it is     *)
(* answered at once unless it awaits a downstream call of its own, and it  *)
(* reads and updates the session of its peer.                              *)
(***************************************************************************)
C8_Handled(client_id, request_data) ==
    /\ ServeOne(client_id, request_data)
    /\ \A n \in DOMAIN inflight : n \in DOMAIN inflight' /\ inflight'[n] = inflight[n]
    /\ reply'.n = now + 1 \/ (now + 1) \in DOMAIN inflight'
    /\ (/\ client_id \in DOMAIN client_sessions
        /\ MethodOf(request_data) \in {"initialize", "tools/list"}) =>
           /\ reply'.n = now + 1
           /\ client_sessions'[client_id].requests_count =
                  client_sessions[client_id].requests_count + 1

C8_NoExclusionWhileInFlight ==
    (DOMAIN inflight # {} /\ now < MaxRequests) =>
        \A client_id \in Peers, request_data \in Envelopes(DispatcherShapes, now + 1) :
            ENABLED C8_Handled(client_id, request_data)

C8_Witness ==
    /\ Answered
    /\ reply.n = now
    /\ MethodOf(reply.request_data) = "tools/list"
    /\ \E n \in DOMAIN inflight :
           n < reply.n /\ inflight[n].client_id = reply.client_id
    /\ reply.client_id \in DOMAIN client_sessions
    /\ client_sessions[reply.client_id].requests_count = 3

(***************************************************************************)
(* C9: no step removes a session or lowers its requests_count.             *)
(***************************************************************************)
C9_RequestsCountMonotone ==
    [][\A p \in DOMAIN client_sessions :
          /\ p \in DOMAIN client_sessions'
          /\ client_sessions'[p].requests_count >= client_sessions[p].requests_count]_vars

C9_Witness ==
    /\ PeerA \in DOMAIN client_sessions
    /\ client_sessions[PeerA].requests_count = 2
    /\ Answered
    /\ reply.client_id = PeerB
    /\ reply.n = 3

(***************************************************************************)
(* C10: the peers that have a session are the peers an initialize was      *)
(* received from, and no step removes a session.                           *)
(***************************************************************************)
C10_SessionIffInitialized ==
    /\ [](DOMAIN client_sessions = handshaken)
    /\ [][DOMAIN client_sessions \subseteq DOMAIN client_sessions']_vars

C10_Witness ==
    /\ PeerA \in DOMAIN client_sessions
    /\ PeerB \notin DOMAIN client_sessions
    /\ Answered
    /\ reply.client_id = PeerB
    /\ MethodOf(reply.request_data) = "tools/call"
    /\ IsToolText(reply.body)
    /\ reply.n = 3

(***************************************************************************)
(* C11: for a peer that has a session, a tools/list adds 1 to              *)
(* requests_count and leaves the rest of the session as it was, and a      *)
(* tools/call adds 1 to requests_count and appends one record to           *)
(* tools_called, carrying the tool name and the arguments of the call.     *)
(***************************************************************************)
C11_ListCounted(old, new) ==
    new = [old EXCEPT !.requests_count = @ + 1]

C11_CallRecorded(old, new, request_data) ==
    /\ new.requests_count = old.requests_count + 1
    /\ new.connected_at = old.connected_at
    /\ Len(new.tools_called) = Len(old.tools_called) + 1
    /\ SubSeq(new.tools_called, 1, Len(old.tools_called)) = old.tools_called
    /\ IsDict(ParamsOf(request_data))
    /\ LET record == new.tools_called[Len(new.tools_called)]
       IN  /\ record.tool_name = Get(ParamsOf(request_data).val, "name", None)
           /\ record.arguments = Get(ParamsOf(request_data).val, "arguments", EmptyDict)

\* as claimed: every tools/call is counted and recorded
C11_EveryCallTracked ==
    [][(ReceivedStep /\ ReceivedClient \in DOMAIN client_sessions) =>
          /\ MethodOf(ReceivedRequest) = "tools/list" =>
                 C11_ListCounted(client_sessions[ReceivedClient],
                                 client_sessions'[ReceivedClient])
          /\ MethodOf(ReceivedRequest) = "tools/call" =>
                 C11_CallRecorded(client_sessions[ReceivedClient],
                                  client_sessions'[ReceivedClient], ReceivedRequest)]_vars

\* as amended: every tools/call whose params are a mapping is
C11_EveryMappedCallTracked ==
    [][(ReceivedStep /\ ReceivedClient \in DOMAIN client_sessions) =>
          /\ MethodOf(ReceivedRequest) = "tools/list" =>
                 C11_ListCounted(client_sessions[ReceivedClient],
                                 client_sessions'[ReceivedClient])
          /\ (/\ MethodOf(ReceivedRequest) = "tools/call"
              /\ IsDict(ParamsOf(ReceivedRequest))) =>
                 C11_CallRecorded(client_sessions[ReceivedClient],
                                  client_sessions'[ReceivedClient], ReceivedRequest)]_vars

\* initialize, a tools/call add_number {number: 42}, then a tools/list
C11_Witness ==
    /\ Answered
    /\ reply.n = 3
    /\ MethodOf(reply.request_data) = "tools/list"
    /\ reply.client_id \in DOMAIN client_sessions
    /\ client_sessions[reply.client_id].requests_count = 3
    /\ Len(client_sessions[reply.client_id].tools_called) = 1
    /\ client_sessions[reply.client_id].tools_called[1].tool_name = "add_number"
    /\ client_sessions[reply.client_id].tools_called[1].arguments = [number |-> 42]

(***************************************************************************)
(* C12: a tools/call for register_agent, report_status, get_tasks or       *)
(* add_number that lacks an argument the registry requires is answered at  *)
(* once with "Error executing <tool>: '<argument>'", naming the first      *)
(* missing argument; the step issues no downstream call, and after it the  *)
(* dispatcher still serves every request.                                  *)
(***************************************************************************)
C12_Required(name) ==
    (CHOOSE tool \in {ToolCatalog[i] : i \in DOMAIN ToolCatalog} :
        tool.name = name).inputSchema.required

C12_LacksArgument(request_data) ==
    /\ MethodOf(request_data) = "tools/call"
    /\ IsDict(ParamsOf(request_data))
    /\ Get(ParamsOf(request_data).val, "name", None) \in
           {"register_agent", "report_status", "get_tasks", "add_number"}
    /\ \E i \in DOMAIN C12_Required(ParamsOf(request_data).val.name) :
           C12_Required(ParamsOf(request_data).val.name)[i] \notin
               DOMAIN Get(ParamsOf(request_data).val, "arguments", EmptyDict)

C12_FirstMissing(request_data) ==
    LET required == C12_Required(ParamsOf(request_data).val.name)
        arguments == Get(ParamsOf(request_data).val, "arguments", EmptyDict)
        missing == {i \in DOMAIN required : required[i] \notin DOMAIN arguments}
    IN  required[CHOOSE i \in missing : \A j \in missing : i <= j]

C12_MissingArgumentIsText ==
    /\ [][(ReceivedStep /\ C12_LacksArgument(ReceivedRequest)) =>
             /\ reply'.n = now'
             /\ IsToolText(reply'.body)
             /\ "error" \notin DOMAIN reply'.body
             /\ TextOf(reply'.body) =
                    <<"Error executing ", ParamsOf(ReceivedRequest).val.name, ": ",
                      "'" \o C12_FirstMissing(ReceivedRequest) \o "'">>
             /\ reply'.issued = <<>>
             /\ downstream_calls' = downstream_calls
             /\ inflight' = inflight
             /\ agents' = agents]_vars
    /\ []((Answered /\ C12_LacksArgument(reply.request_data) /\ now < MaxRequests) =>
              \A request_data \in GatewayEnvelopes(now + 1) :
                  ENABLED ServeOne(PeerA, request_data))

\* initialize, register_agent without its version, then a tools/list answered
C12_Witness ==
    /\ Answered
    /\ reply.n = 3
    /\ MethodOf(reply.request_data) = "tools/list"
    /\ "result" \in DOMAIN reply.body
    /\ downstream_calls = 0
    /\ PeerA \in DOMAIN client_sessions
    /\ Len(client_sessions[PeerA].tools_called) = 1
    /\ client_sessions[PeerA].tools_called[1].tool_name = "register_agent"
    /\ client_sessions[PeerA].tools_called[1].arguments = [name |-> "ChatBot"]

(***************************************************************************)
(* C13: a tools/call for a registered tool with every required argument    *)
(* issues one downstream call when it is received, to the endpoint of the  *)
(* tool: register_agent POST /register, report_status POST /report_status, *)
(* get_tasks GET /tasks, add_number POST /adder, get_joke GET /joke.  The  *)
(* step that ends the call, returned or failed, issues no other call and   *)
(* answers the request.                                                    *)
(***************************************************************************)
C13_Endpoint(name) ==
    CASE name = "register_agent" -> <<"POST", "/register">>
      [] name = "report_status"  -> <<"POST", "/report_status">>
      [] name = "get_tasks"      -> <<"GET", "/tasks">>
      [] name = "add_number"     -> <<"POST", "/adder">>
      [] name = "get_joke"       -> <<"GET", "/joke">>

C13_Complete(request_data) ==
    /\ MethodOf(request_data) = "tools/call"
    /\ IsDict(ParamsOf(request_data))
    /\ Get(ParamsOf(request_data).val, "name", None) \in ToolNames
    /\ \A i \in DOMAIN C12_Required(ParamsOf(request_data).val.name) :
           C12_Required(ParamsOf(request_data).val.name)[i] \in
               DOMAIN Get(ParamsOf(request_data).val, "arguments", EmptyDict)

C13_OneCallToFixedEndpoint ==
    /\ [][(ReceivedStep /\ C13_Complete(ReceivedRequest)) =>
             /\ downstream_calls' = downstream_calls + 1
             /\ now' \in DOMAIN inflight'
             /\ <<inflight'[now'].call.verb, inflight'[now'].call.path>> =
                    C13_Endpoint(ParamsOf(ReceivedRequest).val.name)]_vars
    /\ [][~ReceivedStep =>
             /\ downstream_calls' = downstream_calls
             /\ reply'.n \in DOMAIN inflight
             /\ DOMAIN inflight' = DOMAIN inflight \ {reply'.n}
             /\ C13_Complete(reply'.request_data)
             /\ reply'.issued = <<inflight[reply'.n].call>>
             /\ replies'[reply'.n] = 1]_vars
    /\ [](downstream_calls <= now)

\* three calls issued; the one to GET /tasks has failed and was not repeated
C13_Witness ==
    /\ Answered
    /\ C13_Complete(reply.request_data)
    /\ Len(reply.issued) = 1
    /\ reply.issued[1].verb = "GET"
    /\ reply.issued[1].path = "/tasks"
    /\ TextOf(reply.body)[1] = "Error executing "
    /\ downstream_calls = 3
    /\ Cardinality(DOMAIN inflight) = 2

(***************************************************************************)
(* C14: when the downstream call of a tool does not complete, or completes *)
(* with a status outside 2xx, the request is answered with a result whose  *)
(* text is "Error executing <tool>: <cause>", <tool> being the name the    *)
(* request carried: no error envelope.                                     *)
(***************************************************************************)
C14_Failed(response) ==
    \/ response.kind = "RequestError"
    \/ response.kind = "response" /\ response.status \notin 200..299

C14_DownstreamFailureIsText ==
    (Answered /\ "response" \in DOMAIN reply /\ C14_Failed(reply.response)) =>
        /\ "error" \notin DOMAIN reply.body
        /\ IsToolText(reply.body)
        /\ reply.body.id = Get(reply.request_data, "id", None)
        /\ Len(TextOf(reply.body)) = 4
        /\ TextOf(reply.body)[1] = "Error executing "
        /\ TextOf(reply.body)[2] = ParamsOf(reply.request_data).val.name
        /\ TextOf(reply.body)[3] = ": "
        /\ TextOf(reply.body)[4] \in
               {"All connection attempts failed",
                HTTPStatusError(reply.issued[1], Get(reply.response, "status", 0))}

\* the joke endpoint answered 503
C14_Witness ==
    /\ Answered
    /\ "response" \in DOMAIN reply
    /\ reply.response.kind = "response"
    /\ reply.response.status = 503
    /\ TextOf(reply.body)[2] = "get_joke"
    /\ "result" \in DOMAIN reply.body

(***************************************************************************)
(* C15: a tools/call report_status for an agent id the business server     *)
(* does not know is answered, when the 404 arrives, with a result whose    *)
(* text is "Error executing report_status: " followed by a cause naming    *)
(* the status 404 Not Found and the url of /report_status.  The step       *)
(* leaves the sessions as they were, and after it every tools/list and     *)
(* tools/call of the peer gets its normal response and is counted.         *)
(***************************************************************************)
C15_AgentNotFound(exchange) ==
    /\ "response" \in DOMAIN exchange
    /\ exchange.response.kind = "response"
    /\ exchange.response.status = 404
    /\ ParamsOf(exchange.request_data).val.name = "report_status"

C15_NotFoundIndication == "404 Not Found"

C15_ServedNormally(client_id, request_data) ==
    /\ ServeOne(client_id, request_data)
    /\ MethodOf(request_data) = "tools/list" =>
           /\ reply'.n = now + 1
           /\ reply'.body = [jsonrpc |-> "2.0", id |-> Get(request_data, "id", None),
                             result |-> [tools |-> ToolCatalog]]
           /\ client_sessions'[client_id].requests_count =
                  client_sessions[client_id].requests_count + 1
    /\ (MethodOf(request_data) = "tools/call" /\ IsDict(ParamsOf(request_data))) =>
           /\ \/ reply'.n = now + 1 /\ IsToolText(reply'.body)
              \/ (now + 1) \in DOMAIN inflight'
           /\ C11_CallRecorded(client_sessions[client_id], client_sessions'[client_id],
                               request_data)

C15_NotFoundIsTextAndSessionUsable ==
    /\ []((Answered /\ C15_AgentNotFound(reply)) =>
              /\ "error" \notin DOMAIN reply.body
              /\ IsToolText(reply.body)
              /\ TextOf(reply.body) =
                     <<"Error executing ", "report_status", ": ",
                       "Client error '" \o C15_NotFoundIndication
                           \o "' for url 'http://localhost:8000/report_status'"
                           \o "\nFor more information check: "
                           \o "https://developer.mozilla.org/en-US/docs/Web/HTTP/Status/404">>
              /\ (now < MaxRequests /\ reply.client_id \in DOMAIN client_sessions) =>
                     \A request_data \in GatewayEnvelopes(now + 1) :
                         ENABLED C15_ServedNormally(reply.client_id, request_data))
    /\ [][(~ReceivedStep /\ C15_AgentNotFound(reply')) =>
             /\ client_sessions' = client_sessions
             /\ connected_clients' = connected_clients
             /\ agents' = agents]_vars

C15_Witness ==
    /\ Answered
    /\ C15_AgentNotFound(reply)
    /\ reply.request_data.params.val.arguments.agent_id \notin agents
    /\ TextOf(reply.body)[1] = "Error executing "
    /\ reply.client_id \in DOMAIN client_sessions
    /\ client_sessions[reply.client_id].requests_count = 2
    /\ now < MaxRequests

(***************************************************************************)
(* C16: every tools/list, from any peer in any state, is answered at once  *)
(* with a result holding the whole registry: five tools, register_agent,   *)
(* report_status, get_tasks, add_number, get_joke in that order; and no    *)
(* step changes the registry, so two answers never differ.                 *)
(***************************************************************************)
C16_Names(tools) == [i \in 1..Len(tools) |-> tools[i].name]

C16_CatalogFixed ==
    /\ [](/\ Len(TOOLS) = 5
          /\ C16_Names(TOOLS) =
                 <<"register_agent", "report_status", "get_tasks", "add_number", "get_joke">>)
    /\ [][TOOLS' = TOOLS]_vars
    /\ [][(ReceivedStep /\ MethodOf(ReceivedRequest) = "tools/list") =>
             /\ reply'.n = now'
             /\ "error" \notin DOMAIN reply'.body
             /\ "result" \in DOMAIN reply'.body
             /\ reply'.body.result = [tools |-> TOOLS]
             /\ reply'.body.id = Get(ReceivedRequest, "id", None)]_vars

\* a peer without a session lists the tools while a call of the other peer is in flight
C16_Witness ==
    /\ Answered
    /\ reply.n = 3
    /\ MethodOf(reply.request_data) = "tools/list"
    /\ reply.client_id \notin DOMAIN client_sessions
    /\ DOMAIN inflight # {}
    /\ Len(reply.body.result.tools) = 5
    /\ reply.body.result.tools[5].name = "get_joke"

(***************************************************************************)
(* C17: every envelope with method initialize, whatever its params, is     *)
(* answered with a result carrying the protocol version, the capability    *)
(* descriptor and the server identity.                                     *)
(***************************************************************************)
C17_InitializeAlwaysSucceeds ==
    (Answered /\ MethodOf(reply.request_data) = "initialize") =>
        /\ "error" \notin DOMAIN reply.body
        /\ "result" \in DOMAIN reply.body
        /\ reply.body.result =
               [protocolVersion |-> "2024-11-05",
                capabilities |-> [tools |-> [listChanged |-> FALSE]],
                serverInfo |-> [name |-> "business-server-mcp", version |-> "1.0.0"]]

(***************************************************************************)
(* C18: a tools/list or tools/call from a peer that never sent initialize  *)
(* is answered with a result, and with the very answer a peer that did     *)
(* send initialize gets for the same request: the same body when the       *)
(* request is answered at once, the same downstream call otherwise.        *)
(***************************************************************************)
C18_Gated(request_data) ==
    \/ MethodOf(request_data) = "tools/list"
    \/ MethodOf(request_data) = "tools/call" /\ IsDict(ParamsOf(request_data))

C18_AnsweredAtOnce(client_id, request_data, body) ==
    /\ ServeOne(client_id, request_data)
    /\ reply'.n = now + 1
    /\ reply'.body = body

C18_Suspended(client_id, request_data, call) ==
    /\ ServeOne(client_id, request_data)
    /\ (now + 1) \in DOMAIN inflight'
    /\ inflight'[now + 1].call = call
    /\ inflight'[now + 1].tool_name = ParamsOf(request_data).val.name
    /\ inflight'[now + 1].arguments = ParamsOf(request_data).val.arguments

\* the answers a request can get: the catalog, a gateway text, a downstream call
C18_Bodies(request_data) ==
    LET request_id == Get(request_data, "id", None)
        texts == {<<"Unknown tool: ", "delete_agent">>,
                  <<"Error executing ", "add_number", ": ", "'number'">>}
    IN  {[jsonrpc |-> "2.0", id |-> request_id, result |-> [tools |-> ToolCatalog]]}
            \cup {[jsonrpc |-> "2.0", id |-> request_id,
                   result |-> [content |-> << [type |-> "text", text |-> text] >>]] :
                      text \in texts}

C18_Calls == {[verb |-> "GET", path |-> "/joke", data |-> EmptyDict]}

C18_NoHandshakeGate ==
    /\ (Answered /\ reply.client_id \notin handshaken /\ C18_Gated(reply.request_data)) =>
           /\ "result" \in DOMAIN reply.body
           /\ "error" \notin DOMAIN reply.body
    /\ \A p \in Peers \ handshaken, q \in handshaken :
           now < MaxRequests =>
               \A request_data \in Envelopes(DispatcherShapes, now + 1) :
                   C18_Gated(request_data) =>
                       \/ \E body \in C18_Bodies(request_data) :
                              /\ ENABLED C18_AnsweredAtOnce(p, request_data, body)
                              /\ ENABLED C18_AnsweredAtOnce(q, request_data, body)
                       \/ \E call \in C18_Calls :
                              /\ ENABLED C18_Suspended(p, request_data, call)
                              /\ ENABLED C18_Suspended(q, request_data, call)

\* the joke asked by a peer without a session has arrived, the other peer has a session
C18_Witness ==
    /\ Answered
    /\ reply.client_id \notin handshaken
    /\ handshaken # {}
    /\ MethodOf(reply.request_data) = "tools/call"
    /\ Len(reply.issued) = 1
    /\ TextOf(reply.body)[1] = "Here's a joke for you:\n\nSetup: "
    /\ now < MaxRequests

(***************************************************************************)
(* C19: the step that handles a notifications/initialized leaves           *)
(* connected_clients and every session (connected_at, requests_count,      *)
(* tools_called) as they were, and issues no downstream call.              *)
(***************************************************************************)
C19_NotificationHasNoEffect ==
    [][(ReceivedStep /\ MethodOf(ReceivedRequest) = "notifications/initialized") =>
          /\ connected_clients' = connected_clients
          /\ DOMAIN client_sessions' = DOMAIN client_sessions
          /\ \A p \in DOMAIN client_sessions :
                 /\ client_sessions'[p].connected_at = client_sessions[p].connected_at
                 /\ client_sessions'[p].requests_count = client_sessions[p].requests_count
                 /\ client_sessions'[p].tools_called = client_sessions[p].tools_called
          /\ downstream_calls' = downstream_calls
          /\ inflight' = inflight
          /\ reply'.n = now'
          /\ reply'.issued = <<>>]_vars

\* the notification of a peer that has a session, a recorded call and a call in flight
C19_Witness ==
    /\ Answered
    /\ reply.n = 3
    /\ MethodOf(reply.request_data) = "notifications/initialized"
    /\ reply.body = [jsonrpc |-> "2.0"]
    /\ reply.client_id \in DOMAIN client_sessions
    /\ client_sessions[reply.client_id].requests_count = 2
    /\ Len(client_sessions[reply.client_id].tools_called) = 1
    /\ downstream_calls = 1
    /\ DOMAIN inflight = {2}

(***************************************************************************)
(* C20: an initialize from a peer that has a session, also while a call    *)
(* of that peer is in flight, creates no session and resets none: the      *)
(* peers with a session and connected_clients stay the same, the session   *)
(* of the peer keeps its connected_at and tools_called, and its            *)
(* requests_count grows by 1.                                              *)
(***************************************************************************)
C20_RepeatedInitializeKeepsSession ==
    [][(/\ ReceivedStep
        /\ MethodOf(ReceivedRequest) = "initialize"
        /\ ReceivedClient \in DOMAIN client_sessions) =>
          /\ DOMAIN client_sessions' = DOMAIN client_sessions
          /\ connected_clients' = connected_clients
          /\ client_sessions'[ReceivedClient].connected_at =
                 client_sessions[ReceivedClient].connected_at
          /\ client_sessions'[ReceivedClient].tools_called =
                 client_sessions[ReceivedClient].tools_called
          /\ client_sessions'[ReceivedClient].requests_count =
                 client_sessions[ReceivedClient].requests_count + 1
          /\ \A q \in DOMAIN client_sessions \ {ReceivedClient} :
                 client_sessions'[q] = client_sessions[q]]_vars

\* initialize, a tools/call still in flight, initialize again
C20_Witness ==
    /\ Answered
    /\ reply.n = 3
    /\ MethodOf(reply.request_data) = "initialize"
    /\ "result" \in DOMAIN reply.body
    /\ reply.client_id \in DOMAIN client_sessions
    /\ client_sessions[reply.client_id].connected_at = 1
    /\ client_sessions[reply.client_id].requests_count = 3
    /\ Len(client_sessions[reply.client_id].tools_called) = 1
    /\ Cardinality(DOMAIN client_sessions) = 1
    /\ \E n \in DOMAIN inflight : inflight[n].client_id = reply.client_id

(***************************************************************************)
(* C21: every response envelope the dispatcher returns holds a result or   *)
(* an error, one and not the other.  The only other body it returns is     *)
(* the acknowledgement of notifications/initialized, which holds neither   *)
(* and no id.                                                              *)
(***************************************************************************)
C21_ResultXorError ==
    Answered =>
        IF MethodOf(reply.request_data) = "notifications/initialized"
        THEN DOMAIN reply.body = {"jsonrpc"}
        ELSE /\ DOMAIN reply.body \in {{"jsonrpc", "id", "result"}, {"jsonrpc", "id", "error"}}
             /\ ("result" \in DOMAIN reply.body) # ("error" \in DOMAIN reply.body)

\* an error envelope returned after a call had been answered with a result
C21_Witness ==
    /\ Answered
    /\ reply.n = 3
    /\ MethodOf(reply.request_data) = "tools/call"
    /\ DOMAIN reply.body = {"jsonrpc", "id", "error"}
    /\ downstream_calls = 1
    /\ DOMAIN inflight = {}

(***************************************************************************)
(* C22: a tools/call add_number with number n, n an integer of the range   *)
(* sent, whose call to /adder is answered, gets the text                   *)
(* "Result: n + 1 = m" with m the decimal form of n + 1; for n = 42 the    *)
(* text reads "42 + 1 = 43".                                               *)
(***************************************************************************)
C22_AdderAnswered ==
    /\ Answered
    /\ "response" \in DOMAIN reply
    /\ reply.response.kind = "response"
    /\ reply.response.status = 200
    /\ ParamsOf(reply.request_data).val.name = "add_number"

C22_AddNumberRoundTrip ==
    C22_AdderAnswered =>
        LET n == ParamsOf(reply.request_data).val.arguments.number
        IN  /\ n \in AdderNumbers
            /\ "result" \in DOMAIN reply.body
            /\ TextOf(reply.body) = <<"Result: ", ToString(n), " + 1 = ", ToString(n + 1)>>
            /\ n = 42 => TextOf(reply.body) = <<"Result: ", "42", " + 1 = ", "43">>
            /\ n = 0 - 1 => TextOf(reply.body) = <<"Result: ", "-1", " + 1 = ", "0">>

C22_Witness ==
    /\ C22_AdderAnswered
    /\ ParamsOf(reply.request_data).val.arguments.number = 42
    /\ TextOf(reply.body)[4] = "43"
    /\ PeerA \in DOMAIN client_sessions
    /\ Len(client_sessions[PeerA].tools_called) = 2
    /\ client_sessions[PeerA].tools_called[1].arguments.number < 0

(***************************************************************************)
(* C29: the business API knows exactly the agent ids its /register has     *)
(* returned and never forgets one: in every state /report_status and       *)
(* /tasks answer 200 for those ids and 404 for every other id, and so do   *)
(* the answers the gateway has received from them.                         *)
(***************************************************************************)
C29_Ids == {"agent-1", "agent-2", "agent-3", "agent-4", "agent-5", "nobody"}

C29_Registers(exchange) ==
    /\ "response" \in DOMAIN exchange
    /\ exchange.response.kind = "response"
    /\ exchange.issued[1].path = "/register"

C29_AsksAboutAgent(exchange) ==
    /\ "response" \in DOMAIN exchange
    /\ exchange.response.kind = "response"
    /\ exchange.issued[1].path \in {"/report_status", "/tasks"}

C29_UnknownIs404KnownStays ==
    /\ [](\A id \in C29_Ids :
             LET expected == IF id \in agents THEN 200 ELSE 404
             IN  /\ BusinessServer([verb |-> "POST", path |-> "/report_status",
                                    data |-> [agent_id |-> id, status |-> "active",
                                              cpu_usage |-> None, memory_usage |-> None]],
                                   agents, TRUE).status = expected
                 /\ BusinessServer([verb |-> "GET", path |-> "/tasks",
                                    data |-> [agent_id |-> id]],
                                   agents, TRUE).status = expected)
    /\ []((Answered /\ C29_AsksAboutAgent(reply)) =>
              reply.response.status =
                  IF reply.issued[1].data.agent_id \in agents THEN 200 ELSE 404)
    /\ [][agents \subseteq agents']_vars
    /\ [][agents' # agents =>
             /\ C29_Registers(reply')
             /\ reply'.response.status = 200
             /\ agents' = agents \cup {reply'.response.json.agent_id}]_vars

\* the tasks of a registered agent are served while its status report is in flight
C29_Witness ==
    /\ Answered
    /\ C29_AsksAboutAgent(reply)
    /\ reply.issued[1].path = "/tasks"
    /\ reply.response.status = 200
    /\ agents = {"agent-1"}
    /\ \E n \in DOMAIN inflight : inflight[n].call.path = "/report_status"

(***************************************************************************)
(* C30: across every step, each session stays and its tools_called of      *)
(* before the step is a prefix of its tools_called after it: no record is  *)
(* removed, reordered or modified, and the length never decreases.         *)
(***************************************************************************)
C30_IsPrefix(old, new) ==
    /\ Len(old) <= Len(new)
    /\ \A i \in 1..Len(old) : new[i] = old[i]

C30_HistoryAppendOnly ==
    [][\A p \in DOMAIN client_sessions :
          /\ p \in DOMAIN client_sessions'
          /\ C30_IsPrefix(client_sessions[p].tools_called,
                          client_sessions'[p].tools_called)]_vars

\* two different calls recorded in the order they arrived, the first still in flight
C30_Witness ==
    /\ PeerA \in DOMAIN client_sessions
    /\ Len(client_sessions[PeerA].tools_called) = 2
    /\ client_sessions[PeerA].tools_called[1].tool_name = "get_tasks"
    /\ client_sessions[PeerA].tools_called[2].tool_name = "add_number"
    /\ client_sessions[PeerA].tools_called[1].timestamp = 2
    /\ client_sessions[PeerA].tools_called[2].timestamp = 3
    /\ Answered
    /\ reply.n = 3
    /\ 2 \in DOMAIN inflight

(***************************************************************************)
(* C23: connect_to_server sends the health probe, the initialize request,  *)
(* the notifications/initialized notification and the tools/list request   *)
(* in this order, each when the one before it has been answered or has     *)
(* failed, and sends no tools/call: a tools/call is sent by call_tool      *)
(* only, which starts when connect_to_server has ended.                    *)
(***************************************************************************)
C23_Order ==
    <<HealthProbe, Post(init_request), Post(initialized_notification), Post(tools_request)>>

C23_Connecting == task.pc # "idle" /\ task.op = "connect_to_server"

\* how many requests connect_to_server has sent when it is at task.pc
C23_Progress ==
    IF task.pc = "health" THEN 1
    ELSE IF task.pc = "initialize" THEN 2
    ELSE IF task.pc = "notifications/initialized" THEN 3
    ELSE IF task.pc = "tools/list" THEN 4
    ELSE IF task.outcome = "raise" THEN 1
    ELSE 4

C23_IsToolsCall(message) ==
    message.verb = "POST" /\ Get(message.json, "method", None) = "tools/call"

C24_CallEnded == task.pc = "done" /\ task.op = "call_tool"

C24_NeverRaises == C24_CallEnded => task.outcome = "return"

C24_RaisesOnlyBeforeConnect ==
    C24_CallEnded =>
        IF mcp_manager.client = None
        THEN /\ task.outcome = "raise"
             /\ task.exception = "RuntimeError"
             /\ task.value = NotConnected
             /\ sent = <<>>
        ELSE /\ task.outcome = "return"
             /\ Len(task.value) > 0
             /\ \A i \in 1..Len(task.value) : task.value[i] \in STRING

\* after a connect that failed on the health probe, a call whose request
\* never reached the dispatcher returns the fallback text
C24_Witness ==
    /\ C24_CallEnded
    /\ mcp_manager.client = Open
    /\ mcp_manager.tools = <<>>
    /\ Len(sent) = 1
    /\ now = 0
    /\ task.outcome = "return"
    /\ task.value = NoResponseFromTool

(***************************************************************************)
(* C25: one call_tool posts at most one tools/call request; the dispatcher *)
(* reads it at most once; call_tool returns in the step that receives the  *)
(* answer or the failure of that request, with the text of that answer or  *)
(* the fallback text, and posts nothing in that step.                      *)
(***************************************************************************)
C25_InCall == task.pc # "idle" /\ task.op = "call_tool"

C25_SingleRoundTrip ==
    /\ [](C25_InCall =>
              /\ Len(sent) <= 1
              /\ \A i \in 1..Len(sent) : C23_IsToolsCall(sent[i])
              /\ task.pc = "tools/call" =>
                     /\ sent = <<Post(wire.request_data)>>
                     /\ now \in {wire.n - 1, wire.n})
    /\ [][(task.pc = "tools/call" /\ task' # task) =>
              /\ task'.pc = "done"
              /\ task'.outcome = "return"
              /\ sent' = sent
              /\ wire' = NoPost
              /\ now' = now
              /\ Responses # {}
              /\ task'.value \in {call_tool_text(r) : r \in Responses}
              /\ task'.value # NoResponseFromTool =>
                     /\ reply.n = wire.n
                     /\ reply.request_data = wire.request_data
                     /\ task'.value = TextOf(reply.body)]_vars
    /\ [][now' # now =>
              /\ wire.n = now'
              /\ ReceivedRequest = wire.request_data
              /\ UNCHANGED <<wire, sent, task>>]_vars

\* a call that went to the business server and came back with its text
C25_Witness ==
    /\ C24_CallEnded
    /\ Len(sent) = 1
    /\ sent[1].json.params.val.name = "add_number"
    /\ reply.n = now
    /\ "response" \in DOMAIN reply
    /\ reply.response.kind = "response"
    /\ reply.response.status = 200
    /\ downstream_calls = 1
    /\ task.value = TextOf(reply.body)
    /\ task.value = <<"Result: ", "42", " + 1 = ", "43">>

(***************************************************************************)
(* C27: when the health probe cannot connect to the dispatcher,            *)
(* connect_to_server raises having sent nothing but the probe, and leaves  *)
(* the manager as one that is not connected: a call_tool started next      *)
(* ends at once and posts no request.                                      *)
(***************************************************************************)
C27_ConnectFailed ==
    /\ task.pc = "done"
    /\ task.op = "connect_to_server"
    /\ task.outcome = "raise"

C27_FailedConnectLeavesNothing ==
    /\ [](C27_ConnectFailed =>
              /\ task.value = CannotConnect
              /\ sent = <<HealthProbe>>
              /\ wire = NoPost)
    /\ [][(C27_ConnectFailed /\ task'.op = "call_tool") =>
              /\ task'.pc = "done"
              /\ sent' = <<>>
              /\ wire' = NoPost]_vars

(***************************************************************************)
(* C26: in a chat turn in which the LLM proposes tool calls t1..tn, each   *)
(* proposed tool is invoked exactly once, in the proposed order, each      *)
(* invocation starting when the one before has returned, and then exactly  *)
(* one more completion is requested; when no tool call is proposed,        *)
(* nothing is invoked.                                                     *)
(* As corrected: this holds when the arguments of every proposed call      *)
(* parse as JSON; when those of t(k) do not, t1..t(k-1) have been invoked  *)
(* in order, t(k) and the calls after it are not invoked, no further       *)
(* completion is requested and chat returns an error text.                 *)
(***************************************************************************)
C26_Invoke(tool_call) ==
    Post(tool_request(tool_call.function.name,
                      json_loads(tool_call.function.arguments).val))

C26_Parses(tool_call) == IsDict(json_loads(tool_call.function.arguments))

C26_IsInvocationOf(message, tool_call) ==
    /\ C23_IsToolsCall(message)
    /\ message.json.params.val.name = tool_call.function.name
    /\ C26_Parses(tool_call) => message = C26_Invoke(tool_call)

\* the requests of the turn are the invocations of the first m proposed
\* calls, one each, in the proposed order
C26_Invoked(m) ==
    /\ Len(sent) = m
    /\ \A j \in 1..m : C26_IsInvocationOf(sent[j], main.tool_calls[j])

\* the first proposed call whose arguments do not parse, or n + 1
C26_FirstBad ==
    LET bad == {j \in 1..Len(main.tool_calls) : ~C26_Parses(main.tool_calls[j])}
    IN  IF bad = {} THEN Len(main.tool_calls) + 1
        ELSE CHOOSE j \in bad : \A k \in bad : j <= k

C26_TurnOver == main.pc \in {"ready", "exit"} /\ main.turns > 0

\* the turn while it runs: one invocation at a time, in the proposed order
C26_OneAtATime ==
    /\ [](main.pc = "completion" => sent = <<>> /\ main.completions = 1)
    /\ [](main.pc = "tool" =>
              /\ main.i \in 1..Len(main.tool_calls)
              /\ main.i < C26_FirstBad
              /\ C26_Invoked(main.i)
              /\ task.op = "call_tool"
              /\ main.completions = 1)
    /\ [](main.pc = "final" =>
              /\ main.tool_calls # <<>>
              /\ C26_Invoked(Len(main.tool_calls))
              /\ main.completions = 2)
    /\ []((C26_TurnOver /\ main.tool_calls = <<>>) =>
              sent = <<>> /\ main.completions = 1)
    /\ [][(main.pc = "tool" /\ Len(sent') > Len(sent)) =>
              /\ task.pc = "done"
              /\ task.outcome = "return"
              /\ main'.i = main.i + 1
              /\ task'.pc = "tools/call"]_vars
    /\ [][main'.completions # main.completions =>
              \/ main.pc = "ready" /\ main'.pc = "completion" /\ main'.completions = 1
              \/ /\ main.pc \in {"completion", "tool"}
                 /\ main'.pc = "final"
                 /\ main'.completions = main.completions + 1]_vars

C28_Started == main.pc # "main"

C28_MissingKeyAbortsFirst ==
    C28_Started =>
        IF main.api_key = None
        THEN /\ main.pc = "exit"
             /\ main.returned = MissingKey
             /\ sent = <<>>
             /\ wire = NoPost
             /\ task = Idle
             /\ now = 0
             /\ client_sessions = EmptyDict
             /\ agents = {}
             /\ mcp_manager = MCPServerManager_init
             /\ chatbot = ChatBot_init
        ELSE main.returned # MissingKey

C28_Witness ==
    /\ main.pc = "exit"
    /\ main.api_key = None
    /\ main.returned = MissingKey
    /\ chatbot.conversation_history = <<>>
    /\ sent = <<>>

(***************************************************************************)
(* C31: between any two steps of the handlers, connected_clients is the    *)
(* key set of client_sessions.                                             *)
(***************************************************************************)
C31_ConnectedIffSession == connected_clients = DOMAIN client_sessions

\* one peer connected, the other served without a session, a call in flight
C31_Witness ==
    /\ connected_clients = {PeerA}
    /\ DOMAIN client_sessions = {PeerA}
    /\ Answered
    /\ reply.client_id = PeerB
    /\ "result" \in DOMAIN reply.body
    /\ DOMAIN inflight # {}

(***************************************************************************)
(* C32: between any two steps of the handlers, every session has           *)
(* requests_count >= 1 + len(tools_called).                                *)
(***************************************************************************)
C32_CountCoversHistory ==
    \A p \in DOMAIN client_sessions :
        client_sessions[p].requests_count >= 1 + Len(client_sessions[p].tools_called)

\* the bound is met: one initialize and two recorded calls, one still in flight
C32_Witness ==
    /\ PeerA \in DOMAIN client_sessions
    /\ client_sessions[PeerA].requests_count = 3
    /\ Len(client_sessions[PeerA].tools_called) = 2
    /\ DOMAIN inflight # {}

(***************************************************************************)
(* C33: a tools/call with a params mapping, from a peer that has a         *)
(* session, is recorded in the step that receives it, before its           *)
(* downstream call is awaited: while the call is in flight and after it    *)
(* is answered, whatever the answer (unknown tool, missing argument,       *)
(* downstream failure, success), the session holds its record; the         *)
(* records are in the order of arrival and the completion of a call        *)
(* changes no session.                                                     *)
(***************************************************************************)
\* the peer had its session when request number n arrived
C33_HadSession(client_id, n) ==
    /\ client_id \in DOMAIN client_sessions
    /\ client_sessions[client_id].connected_at < n

C33_Recorded(client_id, request_data, n) ==
    \E i \in 1..Len(client_sessions[client_id].tools_called) :
        client_sessions[client_id].tools_called[i] =
            ToolRecord(Get(ParamsOf(request_data).val, "name", None),
                       Get(ParamsOf(request_data).val, "arguments", EmptyDict), n)

C33_MappedCall(request_data) ==
    MethodOf(request_data) = "tools/call" /\ IsDict(ParamsOf(request_data))

C33_RecordedOnArrival ==
    /\ [](\A n \in DOMAIN inflight :
              C33_HadSession(inflight[n].client_id, n) =>
                  C33_Recorded(inflight[n].client_id, inflight[n].request_data, n))
    /\ []((Answered /\ C33_MappedCall(reply.request_data)
                    /\ C33_HadSession(reply.client_id, reply.n)) =>
              C33_Recorded(reply.client_id, reply.request_data, reply.n))
    /\ [](\A p \in DOMAIN client_sessions :
              \A i, j \in 1..Len(client_sessions[p].tools_called) :
                  i < j => client_sessions[p].tools_called[i].timestamp
                               < client_sessions[p].tools_called[j].timestamp)
    /\ [][now' = now => client_sessions' = client_sessions]_vars

\* the second call has failed downstream while the first is still in
\* flight: the history keeps the order of arrival
C33_Witness ==
    /\ PeerA \in DOMAIN client_sessions
    /\ Len(client_sessions[PeerA].tools_called) = 2
    /\ client_sessions[PeerA].tools_called[1].timestamp = 2
    /\ client_sessions[PeerA].tools_called[2].timestamp = 3
    /\ 2 \in DOMAIN inflight
    /\ reply.n = 3
    /\ "response" \in DOMAIN reply
    /\ reply.response.kind = "RequestError"

(***************************************************************************)
(* C34: a request answered with an error envelope leaves the session       *)
(* store as it was before the request: no session created, no             *)
(* requests_count and no tools_called changed.                             *)
(***************************************************************************)
C34_AnsweredWithError ==
    /\ ReceivedStep
    /\ reply'.n = now'
    /\ "error" \in DOMAIN reply'.body

C34_ErrorLeavesSessionsUntouched ==
    [][C34_AnsweredWithError =>
          /\ client_sessions' = client_sessions
          /\ connected_clients' = connected_clients]_vars

(***************************************************************************)
(* C35: when connect_to_server has returned normally, the dispatcher       *)
(* holds a session for the bridge client and the client's tool list is     *)
(* the five-entry catalog.                                                 *)
(***************************************************************************)
C35_ConnectImpliesSessionAndCatalog ==
    task = Returned("connect_to_server") =>
        /\ BridgePeer \in DOMAIN client_sessions
        /\ Len(mcp_manager.tools) = 5
        /\ [i \in 1..5 |-> mcp_manager.tools[i].name] = ToolNames

(***************************************************************************)
(* C36: the stdio gateway and the HTTP gateway are equivalent.  Whatever   *)
(* tool name and argument mapping handle_call_tool was called with,        *)
(* call_tool called with them issues the same downstream call or returns   *)
(* the same text at once; whatever the downstream call came back with,     *)
(* call_tool returns for it the text of the one TextContent                *)
(* handle_call_tool returned; and handle_list_tools returns the five       *)
(* tools of TOOLS.                                                         *)
(***************************************************************************)
C36_SameDownstreamCall ==
    (stdio.pc = "await" \/ (stdio.pc = "done" /\ stdio.request = "tools/call"
                             /\ stdio.awaited))
        => call_tool(stdio.name, stdio.arguments) = Awaits(stdio.call)

C36_OneTextContent ==
    (stdio.pc = "done" /\ stdio.request = "tools/call")
        => Len(stdio.returned) = 1 /\ stdio.returned[1].type = "text"

C36_SameTextAtOnce ==
    (stdio.pc = "done" /\ stdio.request = "tools/call" /\ ~stdio.awaited)
        => call_tool(stdio.name, stdio.arguments) = Returns(stdio.returned[1].text)

C36_SameTextAfterwards ==
    (stdio.pc = "done" /\ stdio.request = "tools/call" /\ stdio.awaited)
        => call_tool_resume(stdio.name, stdio.arguments, stdio.call, stdio.response)
               = stdio.returned[1].text

C36_SameCatalog ==
    /\ Len(handle_list_tools) = 5
    /\ TOOLS = handle_list_tools
    /\ (stdio.pc = "done" /\ stdio.request = "tools/list") => stdio.returned = TOOLS

C36_GatewaysEquivalent ==
    /\ C36_SameDownstreamCall
    /\ C36_OneTextContent
    /\ C36_SameTextAtOnce
    /\ C36_SameTextAfterwards
    /\ C36_SameCatalog

\* get_tasks for an agent registered through the stdio gateway, answered 200
C36_Witness ==
    /\ stdio.pc = "done"
    /\ stdio.request = "tools/call"
    /\ stdio.awaited
    /\ stdio.name = "get_tasks"
    /\ stdio.response.kind = "response"
    /\ stdio.response.status = 200
    /\ stdio.handled = 2

(***************************************************************************)
(* C37: whenever ChatBot.chat has returned, the conversation history ends  *)
(* with an assistant message, the reply to the user message that call      *)
(* appended: its content is the text chat returned, and the user message   *)
(* is followed by assistant messages only.                                 *)
(***************************************************************************)
C37_ChatReturned == main.pc = "ready" /\ main.turns > 0

C37_LastUser(history) ==
    CHOOSE i \in 1..Len(history) :
        /\ history[i].role = "user"
        /\ \A j \in (i + 1)..Len(history) : history[j].role # "user"

C37_EveryUserTurnAnswered ==
    C37_ChatReturned =>
        LET history == chatbot.conversation_history
        IN  /\ history[Len(history)].role = "assistant"
            /\ history[Len(history)].content = main.returned
            /\ C37_LastUser(history) < Len(history)
            /\ \A j \in (C37_LastUser(history) + 1)..Len(history) :
                   history[j].role = "assistant"

====
